---- MODULE Spec2Model ----
(***************************************************************************)
(* GeneralizIT: the analysis session of src/generalizit/design.py (class   *)
(* Design) behind the wrapper of src/generalizit/generalizit.py.           *)
(*                                                                         *)
(* Python floats are modelled as exact rationals <<n, d>> (d > 0, lowest   *)
(* terms); round(x, 4) is modelled as rounding to the nearest multiple of  *)
(* 1/10000.  A pandas table is a function from its index to its rows; the  *)
(* empty DataFrame and the empty dict are the function with empty domain.  *)
(***************************************************************************)
EXTENDS Integers, Sequences, FiniteSets, TLC

\* ---------------------------------------------------------------- bounds
MaxLevels == 2   \* levels per facet of the observed data: 1..MaxLevels
MaxResp == 1     \* responses are 0..MaxResp
MaxDLevel == 2   \* D-study level counts are 1..MaxDLevel
MaxCalls == 3    \* calls made on one session
MaxWork == 12    \* calls made on one session, times the rows of its data
MaxCounted == 2  \* facets that the responses depend on
MaxPasses == 3   \* turns of the while loop of create_pseudo_df that are followed

\* ------------------------------------------------------------- rationals
Abs(x) == IF x < 0 THEN -x ELSE x

RECURSIVE GCD(_, _)
GCD(a, b) == IF b = 0 THEN a ELSE GCD(b, a % b)

Rat(n, d) ==
    LET g == GCD(Abs(n), Abs(d))
        s == IF d < 0 THEN -1 ELSE 1
    IN  <<(s * n) \div g, (s * d) \div g>>

RZero == <<0, 1>>
ROne == <<1, 1>>
RInt(k) == <<k, 1>>

RAdd(a, b) ==
    IF a[1] = 0 THEN b
    ELSE IF b[1] = 0 THEN a
    ELSE IF a[2] = b[2] THEN Rat(a[1] + b[1], a[2])
    ELSE LET g == GCD(a[2], b[2])
         IN  Rat(a[1] * (b[2] \div g) + b[1] * (a[2] \div g), (a[2] \div g) * b[2])

RNeg(a) == <<-a[1], a[2]>>
RSub(a, b) == RAdd(a, RNeg(b))

RMul(a, b) ==
    LET g1 == GCD(Abs(a[1]), b[2])
        g2 == GCD(Abs(b[1]), a[2])
    IN  <<(a[1] \div g1) * (b[1] \div g2), (a[2] \div g2) * (b[2] \div g1)>>

RInv(a) == IF a[1] < 0 THEN <<-a[2], -a[1]>> ELSE <<a[2], a[1]>>
RDiv(a, b) == RMul(a, RInv(b))

RLess(a, b) == a[1] * b[2] < b[1] * a[2]
RLeq(a, b) == a[1] * b[2] <= b[1] * a[2]
RIsNeg(a) == a[1] < 0

RECURSIVE RSumF(_)
RSumF(f) ==
    IF DOMAIN f = {} THEN RZero
    ELSE LET x == CHOOSE y \in DOMAIN f : TRUE
         IN  RAdd(f[x], RSumF([y \in DOMAIN f \ {x} |-> f[y]]))

\* The decimal digits kept by round(x, 4), numpy.round(x, 4) and
\* DataFrame.round(4).
Decimals == 4

RECURSIVE Pow10(_)
Pow10(k) == IF k = 0 THEN 1 ELSE 10 * Pow10(k - 1)

\* floor(x * 10^k) and the remainder, by long division: <<quotient, rest>>
\* with x * 10^k = quotient + rest / d.
RECURSIVE LongDiv(_, _, _, _)
LongDiv(q, r, d, k) ==
    IF k = 0 THEN <<q, r>>
    ELSE LongDiv(10 * q + ((10 * r) \div d), (10 * r) % d, d, k - 1)

\* round half to even, as Python 3 and numpy round.
Round4(a) ==
    LET qr == LongDiv(a[1] \div a[2], a[1] % a[2], a[2], Decimals)
        q == qr[1]
        r == qr[2]
        up == (2 * r > a[2]) \/ (2 * r = a[2] /\ q % 2 = 1)
    IN  Rat(IF up THEN q + 1 ELSE q, Pow10(Decimals))

\* ------------------------------------------------------- facet algebra
Range(s) == {s[k] : k \in 1..Len(s)}

RECURSIVE JoinX(_)
JoinX(combo) ==
    IF Len(combo) = 1 THEN combo[1]
    ELSE combo[1] \o " x " \o JoinX(Tail(combo))

\* itertools.combinations(s, j), in its order.
RECURSIVE Combinations(_, _)
Combinations(s, j) ==
    IF j = 0 THEN << <<>> >>
    ELSE IF Len(s) < j THEN <<>>
    ELSE LET with == Combinations(Tail(s), j - 1)
         IN  [k \in 1..Len(with) |-> <<Head(s)>> \o with[k]]
             \o Combinations(Tail(s), j)

RECURSIVE CrossedComponents(_, _)
CrossedComponents(facets, j) ==
    IF j > Len(facets) THEN <<>>
    ELSE LET cs == Combinations(facets, j)
         IN  [k \in 1..Len(cs) |-> [name |-> JoinX(cs[k]), tup |-> cs[k]]]
             \o CrossedComponents(facets, j + 1)

MeanComponent == [name |-> "mean", tup |-> <<>>]

\* create_variance_tuple_dictionary: a dict is the sequence of its items in
\* insertion order; the design numbers are written as strings ("2" is i:p).
create_variance_tuple_dictionary(design_num, facets) ==
    IF design_num = "crossed"
    THEN CrossedComponents(facets, 1) \o <<MeanComponent>>
    ELSE \* design 2, i:p with facets = <<i, p>>
         << [name |-> facets[2], tup |-> <<facets[2]>>],
            [name |-> facets[1] \o ":" \o facets[2], tup |-> facets],
            MeanComponent >>

\* The lists of a list, chained.
RECURSIVE Concat(_)
Concat(ss) == IF ss = <<>> THEN <<>> ELSE Head(ss) \o Concat(Tail(ss))

\* str.count(sub): the occurrences of sub in s that do not overlap, from the
\* left.
RECURSIVE CountOf(_, _)
CountOf(s, sub) ==
    IF Len(s) < Len(sub) THEN 0
    ELSE IF SubSeq(s, 1, Len(sub)) = sub
    THEN 1 + CountOf(SubSeq(s, Len(sub) + 1, Len(s)), sub)
    ELSE CountOf(SubSeq(s, 2, Len(s)), sub)

\* str.split(sep), with the part read so far in `part`.
RECURSIVE SplitOn(_, _, _)
SplitOn(s, sep, part) ==
    IF Len(s) < Len(sep) THEN <<part \o s>>
    ELSE IF SubSeq(s, 1, Len(sep)) = sep
    THEN <<part>> \o SplitOn(SubSeq(s, Len(sep) + 1, Len(s)), sep, "")
    ELSE SplitOn(SubSeq(s, 2, Len(s)), sep, part \o SubSeq(s, 1, 1))

\* term.replace("(", "").replace(")", "").strip()
RECURSIVE Strip(_)
Strip(s) ==
    IF s = "" THEN s
    ELSE IF SubSeq(s, 1, 1) \in {" ", "(", ")"} THEN Strip(SubSeq(s, 2, Len(s)))
    ELSE IF SubSeq(s, Len(s), Len(s)) \in {" ", "(", ")"}
    THEN Strip(SubSeq(s, 1, Len(s) - 1))
    ELSE s

\* get_facets of match_research_design: split on ':', each part on ' x ',
\* the terms stripped and the empty ones dropped.
get_facets(input_str) ==
    LET colon_parts == SplitOn(input_str, ":", "")
        all_facets == Concat([k \in 1..Len(colon_parts) |->
                                 SplitOn(colon_parts[k], " x ", "")])
    IN  SelectSeq([k \in 1..Len(all_facets) |-> Strip(all_facets[k])],
                  LAMBDA facet : facet # "")

\* The errors of match_research_design.
EmptyDesignError == "ValueError: Input string cannot be empty"
TooManyColonsError == "ValueError: Invalid input: More than 2 ':' operators detected."
TooManyOperatorsError == "ValueError: Invalid input: More than 2 operators detected."
NoOperatorError == "ValueError: Invalid input: No operators detected. Must use ':' or 'x'."

\* match_research_design on a design string that is in lower case, without
\* parentheses and spaced by single blanks (the normalisation leaves it as it
\* is): the operators are counted, a string of ' x ' alone is 'crossed', one
\* of a single ':' is design 2; the designs 4 to 8 are not told apart.
match_research_design(input_string) ==
    LET colon_count == CountOf(input_string, ":")
        cross_count == CountOf(input_string, " x ")
        raise(err) == [err |-> err, design_num |-> "", facets |-> <<>>]
    IN  IF Strip(input_string) = "" THEN raise(EmptyDesignError)
        ELSE IF colon_count > 2 THEN raise(TooManyColonsError)
        ELSE IF colon_count + cross_count > 2 THEN raise(TooManyOperatorsError)
        ELSE IF colon_count + cross_count = 0 THEN raise(NoOperatorError)
        ELSE [err |-> "",
              design_num |-> IF colon_count = 0 THEN "crossed"
                             ELSE IF colon_count = 1 /\ cross_count = 0 THEN "2"
                             ELSE "4-8",
              facets |-> get_facets(input_string)]

\* parse_facets: create_corollary_dictionary keeps the facets in their order
\* and create_variance_tuple_dictionary names the components.
parse_facets(design_num, design_facets) ==
    create_variance_tuple_dictionary(design_num, design_facets)

Keys(vtd) == {vtd[k].name : k \in 1..Len(vtd)}
KeySeq(vtd) == [k \in 1..Len(vtd) |-> vtd[k].name]
TupOf(vtd, key) == (CHOOSE c \in Range(vtd) : c.name = key).tup
FacetsOf(vtd) == UNION {Range(c.tup) : c \in Range(vtd)}

\* dict.pop('mean', None)
PopMean(vtd) == SelectSeq(vtd, LAMBDA c : c.name # "mean")

\* max(d, key=lambda x: len(d[x])): the first key of greatest arity.
MaxFacet(vtd) ==
    LET k == CHOOSE k \in 1..Len(vtd) :
                 /\ \A j \in 1..Len(vtd) : Len(vtd[j].tup) <= Len(vtd[k].tup)
                 /\ \A j \in 1..(k - 1) : Len(vtd[j].tup) < Len(vtd[k].tup)
    IN  vtd[k].name

\* ------------------------------------------------------------- datasets
\* Nested loops over the levels 1..n of each facet, outermost first.
RECURSIVE ForLevels(_, _, _)
ForLevels(f, n, rest) ==
    IF n = 0 THEN <<>>
    ELSE ForLevels(f, n - 1, rest) \o [k \in 1..Len(rest) |-> (f :> n) @@ rest[k]]

RECURSIVE CrossRows(_, _)
CrossRows(fs, lv) ==
    IF fs = <<>> THEN << <<>> >>
    ELSE ForLevels(Head(fs), lv[Head(fs)], CrossRows(Tail(fs), lv))

\* A table, computed once rather than on every lookup (TLC keeps a function
\* as its defining expression until it is compared).
Computed(table) == IF table = table THEN table ELSE table

\* groupby(cols): rows j and k are in one group when they agree on cols; a
\* group is named by its first row.
SameGroup(df, j, k, cols) == \A c \in cols : df[j][c] = df[k][c]
IsFirst(df, k, cols) == \A j \in 1..(k - 1) : ~SameGroup(df, j, k, cols)
\* .size() of the group of row k
GroupSize(df, k, cols) == Cardinality({j \in 1..Len(df) : SameGroup(df, j, k, cols)})
Columns(df) == IF Len(df) = 0 THEN {} ELSE DOMAIN df[1]

RECURSIVE SumInt(_)
SumInt(f) ==
    IF DOMAIN f = {} THEN 0
    ELSE LET x == CHOOSE y \in DOMAIN f : TRUE
         IN  f[x] + SumInt([y \in DOMAIN f \ {x} |-> f[y]])

\* f[1] + ... + f[n]
RECURSIVE SumTo(_, _)
SumTo(f, n) == IF n = 0 THEN 0 ELSE SumTo(f, n - 1) + f[n]

RECURSIVE RSumTo(_, _)
RSumTo(f, n) == IF n = 0 THEN RZero ELSE RAdd(RSumTo(f, n - 1), f[n])

\* df.groupby(cols).size() for every column set of colsets at once: for each
\* row, whether it opens its group and how many rows the group holds.
GroupBy(df, colsets) ==
    Computed([cols \in colsets |->
                 [k \in 1..Len(df) |->
                     [first |-> IsFirst(df, k, cols),
                      size |-> GroupSize(df, k, cols)]]])

\* The sum of term[k] over the groups of one groupby, k the first row of the
\* group.
RSumOverGroups(g, n, term) ==
    RSumTo([k \in 1..n |-> IF g[k].first THEN term[k] ELSE RZero], n)

\* The column sets that the pairs of components of a dict group by.
PairColumns(vtd) ==
    {Range(c.tup) \cup Range(d.tup) : c \in Range(vtd), d \in Range(vtd)}

\* ---------------------------------------------------------------- ANOVA
\* One component's uncorrected sum of squares: the sum over its groups of
\* mean^2 * count; for the empty tuple, the overall mean of the column named
\* 'Response', squared, times the count.
TValue(df, tup, response_col) ==
    IF tup # <<>>
    THEN LET cols == Range(tup)
             s(g) == SumTo([k \in 1..Len(df) |->
                               IF SameGroup(df, k, g, cols) THEN df[k][response_col] ELSE 0],
                           Len(df))
         IN  RSumTo([g \in 1..Len(df) |->
                        IF IsFirst(df, g, cols)
                        THEN Rat(s(g) * s(g), GroupSize(df, g, cols))
                        ELSE RZero],
                    Len(df))
    ELSE LET S == SumTo([k \in 1..Len(df) |-> df[k]["Response"]], Len(df))
         IN  Rat(S * S, Len(df))

\* The lookups that raise inside the try block of _calculate_T_values.
TValueRaises(df, tup, response_col) ==
    IF tup # <<>>
    THEN ~(Range(tup) \subseteq Columns(df)) \/ response_col \notin Columns(df)
    ELSE "Response" \notin Columns(df)

\* T values added to those a call before left in the dict.
calculate_T_values_accumulating(df, vtd, response_col, T) ==
    IF \E k \in 1..Len(vtd) : TValueRaises(df, vtd[k].tup, response_col)
    THEN [ok |-> FALSE, T |-> T]
    ELSE [ok |-> TRUE,
          T |-> [key \in Keys(vtd) |->
                    Round4(RAdd(IF key \in DOMAIN T THEN T[key] ELSE RZero,
                                TValue(df, TupOf(vtd, key), response_col)))]]

\* _calculate_T_values: the T dict after the call, and whether it raised
\* ValueError.  The keys before the failing one keep their unrounded values.
calculate_T_values(df, vtd, response_col, T) ==
    LET bad == {k \in 1..Len(vtd) : TValueRaises(df, vtd[k].tup, response_col)}
        stop == IF bad = {} THEN Len(vtd) + 1
                ELSE CHOOSE k \in bad : \A j \in bad : k <= j
        done == {vtd[k].name : k \in 1..(stop - 1)}
        raw == [key \in DOMAIN T \cup done |->
                   IF key \in done
                   THEN TValue(df, TupOf(vtd, key), response_col)
                   ELSE T[key]]
    IN  IF bad = {}
        THEN [ok |-> TRUE, T |-> [key \in DOMAIN raw |-> Round4(raw[key])]]
        ELSE [ok |-> FALSE, T |-> raw]

\* The same sum with count in the place of count^2.
calculate_count_ratios(df, by, grouping_vars, facets) ==
    IF grouping_vars = {} THEN RInt(Len(df))
    ELSE LET counts == by[facets \cup grouping_vars]
             total == by[facets]
         IN  RSumOverGroups(counts, Len(df),
                 [c \in 1..Len(df) |-> Rat(counts[c].size, total[c].size)])

\* _calculate_variance_coefficients: the sum, over the cells of the joint
\* grouping, of count^2 / (the count of the cell's group by `facets`); `by`
\* holds the groupby sizes of df.
calculate_variance_coefficients(df, by, grouping_vars, facets) ==
    IF grouping_vars = {} THEN RInt(Len(df))
    ELSE LET counts == by[facets \cup grouping_vars]
             total == by[facets]
         IN  RSumOverGroups(counts, Len(df),
                 [c \in 1..Len(df) |->
                     Rat(counts[c].size * counts[c].size, total[c].size)])

\* _create_variance_coefficients_table
create_variance_coefficients_table(df, vtd) ==
    LET by == GroupBy(df, PairColumns(vtd))
    IN  Computed(
        [row_facet \in Keys(vtd) |->
            [col_variance \in Keys(vtd) |->
                Round4(calculate_variance_coefficients(
                    df, by, Range(TupOf(vtd, col_variance)),
                    Range(TupOf(vtd, row_facet))))]])

\* numpy.linalg.solve on the augmented matrix M (n rows, n + 1 columns), by
\* Gauss-Jordan elimination in exact arithmetic; ok is FALSE when no pivot is
\* left in a column (numpy raises LinAlgError: Singular matrix).
RECURSIVE Eliminate(_, _)
Eliminate(M, k) ==
    LET n == Len(M)
    IN  IF k > n THEN [ok |-> TRUE, x |-> [r \in 1..n |-> M[r][n + 1]]]
        ELSE LET piv == {r \in k..n : M[r][k][1] # 0}
             IN  IF piv = {} THEN [ok |-> FALSE, x |-> <<>>]
                 ELSE LET r0 == CHOOSE r \in piv : \A q \in piv : r <= q
                          sw == [r \in 1..n |->
                                    IF r = k THEN M[r0]
                                    ELSE IF r = r0 THEN M[k] ELSE M[r]]
                          prow == [c \in 1..(n + 1) |-> RDiv(sw[k][c], sw[k][k])]
                          next == [r \in 1..n |->
                                      IF r = k THEN prow
                                      ELSE [c \in 1..(n + 1) |->
                                               RSub(sw[r][c], RMul(sw[r][k], prow[c]))]]
                      IN  \* (the comparison makes TLC compute the matrix once)
                          IF prow = prow /\ next = next THEN Eliminate(next, k + 1)
                          ELSE [ok |-> FALSE, x |-> <<>>]

linalg_solve(A, B, keys) ==
    LET n == Len(keys)
        M == [r \in 1..n |->
                 [c \in 1..(n + 1) |->
                     IF c <= n THEN A[keys[r]][keys[c]] ELSE B[keys[r]]]]
        res == IF M = M THEN Eliminate(M, 1) ELSE [ok |-> FALSE, x |-> <<>>]
    IN  [ok |-> res.ok,
         x |-> IF res.ok THEN [key \in Range(keys) |->
                                  res.x[CHOOSE r \in 1..n : keys[r] = key]]
               ELSE <<>>]

\* _calculate_variance: the ANOVA table (columns T and Variance) or the
\* solver's failure.
calculate_variance(coeffs, T, vtd) ==
    LET sol == linalg_solve(coeffs, T, KeySeq(vtd))
    IN  [ok |-> sol.ok,
         table |-> IF sol.ok
                   THEN [key \in Keys(vtd) |->
                            [T |-> T[key], Variance |-> Round4(sol.x[key])]]
                   ELSE <<>>]

\* The observed data: every combination of the levels 1..lv[f], one response
\* each, the sum of the levels of the facets in `counted`, mod (MaxResp + 1).
Observed(facets, lv, counted, response_col) ==
    LET rows == CrossRows(facets, lv)
        resp(r) == SumInt([f \in counted |-> r[f]]) % (MaxResp + 1)
    IN  [k \in 1..Len(rows) |-> rows[k] @@ (response_col :> resp(rows[k]))]

\* --------------------------------------------------- levels coefficients
\* The cell holding the level (the harmonic mean of the counts) in place of
\* its inverse.
LevelCoefficientAsLevel(df, by, differentiation_vars, grouping_vars) ==
    LET counts == by[differentiation_vars \cup grouping_vars]
        grouped == by[differentiation_vars]
        sumOfRatios ==
            RSumOverGroups(counts, Len(df),
                [c \in 1..Len(df) |->
                    Rat(counts[c].size * counts[c].size,
                        grouped[c].size * grouped[c].size)])
    IN  RDiv(RInt(Cardinality({k \in 1..Len(df) : grouped[k].first})),
             sumOfRatios)

\* One cell of _calculate_levels_coeffs: over the groups of the facet of
\* differentiation, the mean of sum(count^2) / sum(count)^2.
LevelCoefficient(df, by, differentiation_vars, grouping_vars) ==
    LET counts == by[differentiation_vars \cup grouping_vars]
        grouped == by[differentiation_vars]
        sumOfRatios ==
            RSumOverGroups(counts, Len(df),
                [c \in 1..Len(df) |->
                    Rat(counts[c].size * counts[c].size,
                        grouped[c].size * grouped[c].size)])
    IN  RDiv(sumOfRatios,
             RInt(Cardinality({k \in 1..Len(df) : grouped[k].first})))

\* groupby raises KeyError for a column the table does not have.
LevelsCoeffsRaises(df, vtd) ==
    \E key \in Keys(vtd) \ {"mean", MaxFacet(vtd)} :
        \E g \in Keys(vtd) \ {"mean"} :
            ~(Range(TupOf(vtd, key)) \cup Range(TupOf(vtd, g)) \subseteq Columns(df))

\* The table with the cells of the components that share no facet left
\* unfilled.
calculate_levels_coeffs_of_sharing(df, vtd) ==
    LET max_facet == MaxFacet(vtd)
        by == GroupBy(df, PairColumns(PopMean(vtd)))
    IN  Computed(
        [key \in Keys(vtd) \ {"mean"} |->
            [grouping_facet \in Keys(vtd) \ {"mean"} |->
                IF key = max_facet THEN <<1, 1>>
                ELSE IF Range(TupOf(vtd, key)) \cap Range(TupOf(vtd, grouping_facet)) = {}
                THEN <<0, 0>>
                ELSE LevelCoefficient(df, by, Range(TupOf(vtd, key)),
                                      Range(TupOf(vtd, grouping_facet)))]])

\* _calculate_levels_coeffs
calculate_levels_coeffs(df, vtd) ==
    LET max_facet == MaxFacet(vtd)
        by == GroupBy(df, PairColumns(PopMean(vtd)))
    IN  Computed(
        [key \in Keys(vtd) \ {"mean"} |->
            [grouping_facet \in Keys(vtd) \ {"mean"} |->
                IF key = max_facet THEN ROne
                ELSE LevelCoefficient(df, by, Range(TupOf(vtd, key)),
                                      Range(TupOf(vtd, grouping_facet)))]])

\* --------------------------------------------------------- G coefficients
\* float('nan'), as 0/0 yields under numpy.
NaN == <<0, 0>>
IsNaN(a) == a[2] = 0

\* tau facets taken among the main effects only.
get_main_effect_tau_facets(facet_of_differentiation, facet_of_differentiation_tup, vtd) ==
    {facet_of_differentiation} \cup
    {c.name : c \in
        {c \in Range(vtd) :
            /\ Len(c.tup) = 1
            /\ Len(facet_of_differentiation_tup) > 1
            /\ c.tup[1] \in Range(facet_of_differentiation_tup)}}

\* _get_tau_facets: the facet itself and every component whose tuple is, as a
\* set, a combination of fewer elements of the facet's tuple.
get_tau_facets(facet_of_differentiation, facet_of_differentiation_tup, vtd) ==
    {facet_of_differentiation} \cup
    {c.name : c \in
        {c \in Range(vtd) :
            \E i \in 1..(Len(facet_of_differentiation_tup) - 1) :
                /\ Len(c.tup) = i
                /\ Range(c.tup) \in
                       {Range(combo) :
                           combo \in Range(Combinations(facet_of_differentiation_tup, i))}}}

\* _calculate_tau
calculate_tau(variance, tau_facets) ==
    RSumF([f \in tau_facets |-> variance[f]])

\* Delta facets restricted to the main effects outside tau.
get_main_effect_delta_facets(tau_facets, vtd) ==
    {c.name : c \in {c \in Range(vtd) : Len(c.tup) = 1}} \ tau_facets

\* Delta facets taken among the interaction components outside tau.
get_interaction_delta_facets(tau_facets, vtd) ==
    {c.name : c \in {c \in Range(vtd) : Len(c.tup) > 1}} \ tau_facets

\* _get_big_delta_facets
get_big_delta_facets(tau_facets, vtd) == Keys(vtd) \ tau_facets

\* _calculate_big_delta
calculate_big_delta(variance, facet_of_differentiation, big_delta_facets, levels_df) ==
    RSumF([f \in big_delta_facets |->
              RMul(variance[f], levels_df[facet_of_differentiation][f])])

\* delta facets taken among the crossed components only: a component named
\* with ':' is passed over.
get_crossed_delta_facets(tau_facets, facet_of_differentiation, facet_of_differentiation_tup, vtd) ==
    {c.name : c \in
        {c \in Range(vtd) :
            /\ ~(\/ c.name = "mean"
                 \/ c.name = facet_of_differentiation
                 \/ Len(c.tup) < Len(facet_of_differentiation_tup)
                 \/ c.name \in tau_facets
                 \/ \E k \in 1..Len(c.name) : SubSeq(c.name, k, k) = ":")
            /\ \E f \in Range(facet_of_differentiation_tup) : f \in Range(c.tup)}}

\* _get_little_delta_facets
get_little_delta_facets(tau_facets, facet_of_differentiation, facet_of_differentiation_tup, vtd) ==
    {c.name : c \in
        {c \in Range(vtd) :
            /\ ~(\/ c.name = "mean"
                 \/ c.name = facet_of_differentiation
                 \/ Len(c.tup) < Len(facet_of_differentiation_tup)
                 \/ c.name \in tau_facets)
            /\ \E f \in Range(facet_of_differentiation_tup) : f \in Range(c.tup)}}

\* delta as the plain sum of the variances of the delta facets.
calculate_unweighted_delta(variance, facet_of_differentiation, little_delta_facets, levels_df) ==
    RSumF([f \in little_delta_facets |-> variance[f]])

\* _calculate_little_delta
calculate_little_delta(variance, facet_of_differentiation, little_delta_facets, levels_df) ==
    RSumF([f \in little_delta_facets |->
              RMul(variance[f], levels_df[facet_of_differentiation][f])])

\* tau / (tau + error): numpy gives nan for 0 / 0.
Ratio(tau, error) ==
    LET total == RAdd(tau, error)
    IN  IF total[1] = 0 THEN NaN ELSE RDiv(tau, total)

\* _calculate_phi_squared
calculate_phi_squared(variance, facet_of_differentiation, vtd, levels_df) ==
    LET tau_facets == get_tau_facets(facet_of_differentiation,
                                     TupOf(vtd, facet_of_differentiation), vtd)
        tau == calculate_tau(variance, tau_facets)
        Delta == calculate_big_delta(variance, facet_of_differentiation,
                                     get_big_delta_facets(tau_facets, vtd), levels_df)
    IN  Ratio(tau, Delta)

\* _calculate_rho_squared
calculate_rho_squared(variance, facet_of_differentiation, vtd, levels_df) ==
    LET tup == TupOf(vtd, facet_of_differentiation)
        tau_facets == get_tau_facets(facet_of_differentiation, tup, vtd)
        tau == calculate_tau(variance, tau_facets)
        delta == calculate_little_delta(
                     variance, facet_of_differentiation,
                     get_little_delta_facets(tau_facets, facet_of_differentiation, tup, vtd),
                     levels_df)
    IN  Ratio(tau, delta)

\* The rows _calculate_g_coeffs fills (every facet but 'mean' and the
\* largest), before dropna.
GCoeffRows(variance, levels_df, vtd) ==
    LET largest_facet == MaxFacet(vtd)
    IN  [facet \in DOMAIN variance \ {"mean", largest_facet} |->
            [phi2 |-> calculate_phi_squared(variance, facet, vtd, levels_df),
             rho2 |-> calculate_rho_squared(variance, facet, vtd, levels_df)]]

\* DataFrame.dropna: the rows with a nan in some column are removed.
DropNa(rows) ==
    [facet \in {f \in DOMAIN rows : ~IsNaN(rows[f].phi2) /\ ~IsNaN(rows[f].rho2)} |->
        rows[facet]]

\* _calculate_g_coeffs: variance maps each index of variance_df to its
\* 'Variance'.
calculate_g_coeffs(variance, levels_df, vtd) ==
    LET kept == DropNa(GCoeffRows(variance, levels_df, vtd))
    IN  [facet \in DOMAIN kept |->
            [phi2 |-> Round4(kept[facet].phi2), rho2 |-> Round4(kept[facet].rho2)]]

\* ------------------------------------------------------------- the session
\* One GeneralizIT object and the Design it wraps.  A DataFrame is a function
\* from its index; the empty DataFrame and the empty dict are <<>>.  `call`
\* records the last call made on the session: its arguments, the error it
\* raised ("" when it returned), whether it printed the negative-variance
\* warning and whether it repeats the call before it; `calls` counts the calls
\* made so far.
VARIABLES data, response_col, variance_tuple_dictionary, T,
          variance_coeffs_table, anova_table, levels_coeffs, g_coeffs_table,
          d_study_dict, confidence_intervals, alpha, call, calls

vars == <<data, response_col, variance_tuple_dictionary, T,
          variance_coeffs_table, anova_table, levels_coeffs, g_coeffs_table,
          d_study_dict, confidence_intervals, alpha, call, calls>>

\* An optional keyword argument: absent, or given with a value.
NoKwarg == [given |-> FALSE, val |-> <<>>]
Kwarg(v) == [given |-> TRUE, val |-> v]

\* The errors the calls raise.
NoError == ""
NegativeVarianceError == "ValueError: Variance component is negative."
KeysMismatchError == "ValueError: Variance dictionary keys do not match the variance tuple dictionary keys."
AnovaFirstError == "ValueError: Please calculate the ANOVA table using the calculate_anova method"
IndexMismatchError == "ValueError: ANOVA table indices do not match the variance tuple dictionary keys."
LevelsMismatchError == "ValueError: Levels coefficients must match the variance components."
LevelsShapeError == "ValueError: Levels coefficients must have a square shape"
LevelsSignError == "ValueError: Levels coefficients must be greater than 0."
GroupKeyError == "KeyError"
TValuesError == "ValueError: Error calculating T values"
SingularMatrixError == "LinAlgError: Singular matrix"
AnovaRuntimeError == "RuntimeError: ANOVA table must be calculated first."
FixedCountError == "ValueError: The number of fixed facets cannot exceed the number of facets in the design minus 2."
FixedFacetError == "ValueError: Fixed facet not found in the design facets"
UnknownFacetError == "ValueError: Facets in d_study_design are not found in any variance component tuple."
LevelValueError == "ValueError: All levels must be greater than 0."
EmptyFrameError == "ValueError: All DataFrames in pseudo_counts_dfs must be non-empty."
ColumnsError == "ValueError: DataFrame columns are not found in any variance component tuple."
AlphaError == "ValueError: Alpha must be between 0 and 1."

\* The 'Variance' column of a table, without the 'mean' row.
VarianceColumn(table) ==
    [key \in DOMAIN table \ {"mean"} |-> table[key].Variance]

\* The same choice without the validation of the caller's values: a negative
\* value goes on to the clipping.
g_coeffs_variance_unvalidated(self, variance_dictionary, variance_tup_dict) ==
    IF variance_dictionary.given
    THEN IF DOMAIN variance_dictionary.val # Keys(variance_tup_dict)
         THEN [err |-> KeysMismatchError, variance_df |-> <<>>]
         ELSE [err |-> NoError, variance_df |-> variance_dictionary.val]
    ELSE IF self.anova_table = <<>>
    THEN [err |-> AnovaFirstError, variance_df |-> <<>>]
    ELSE [err |-> NoError, variance_df |-> VarianceColumn(self.anova_table)]

\* The same choice without the test of anova_table.empty: a session without
\* estimates works from zeros.
g_coeffs_variance_defaulting(self, variance_dictionary, variance_tup_dict) ==
    IF variance_dictionary.given
    THEN IF \E key \in DOMAIN variance_dictionary.val :
                RIsNeg(variance_dictionary.val[key])
         THEN [err |-> NegativeVarianceError, variance_df |-> <<>>]
         ELSE IF DOMAIN variance_dictionary.val # Keys(variance_tup_dict)
         THEN [err |-> KeysMismatchError, variance_df |-> <<>>]
         ELSE [err |-> NoError, variance_df |-> variance_dictionary.val]
    ELSE [err |-> NoError,
          variance_df |-> IF self.anova_table = <<>>
                          THEN [key \in Keys(variance_tup_dict) |-> RZero]
                          ELSE VarianceColumn(self.anova_table)]

\* The variance components Design.g_coeffs works from: the caller's
\* variance_dictionary once validated, else the ANOVA table.
g_coeffs_variance(self, variance_dictionary, variance_tup_dict) ==
    LET variance_dict == variance_dictionary.val
    IN  IF variance_dictionary.given
        THEN IF \E key \in DOMAIN variance_dict : RIsNeg(variance_dict[key])
             THEN [err |-> NegativeVarianceError, variance_df |-> <<>>]
             ELSE IF DOMAIN variance_dict # Keys(variance_tup_dict)
             THEN [err |-> KeysMismatchError, variance_df |-> <<>>]
             ELSE [err |-> NoError, variance_df |-> variance_dict]
        ELSE IF self.anova_table = <<>>
        THEN [err |-> AnovaFirstError, variance_df |-> <<>>]
        ELSE [err |-> NoError, variance_df |-> VarianceColumn(self.anova_table)]

\* Design.g_coeffs that passes over the levels_df of its caller: it works
\* from the levels coefficients of the session, computed from the data and
\* stored when there are none.
g_coeffs_session_levels(self, variance_dictionary, levels_df) ==
    LET variance_tup_dict == PopMean(self.variance_tuple_dictionary)
        chosen == g_coeffs_variance(self, variance_dictionary, variance_tup_dict)
        levels == IF self.levels_coeffs # <<>> THEN self.levels_coeffs
                  ELSE calculate_levels_coeffs(self.data, variance_tup_dict)
        variance == [key \in DOMAIN chosen.variance_df \ {"mean"} |->
                        IF RIsNeg(chosen.variance_df[key]) THEN RZero
                        ELSE chosen.variance_df[key]]
        failed == chosen.err # NoError \/ LevelsCoeffsRaises(self.data, variance_tup_dict)
    IN  [err |-> IF chosen.err # NoError THEN chosen.err
                 ELSE IF failed THEN GroupKeyError ELSE NoError,
         warned |-> FALSE,
         variance_tuple_dictionary |-> variance_tup_dict,
         levels_coeffs |-> IF failed THEN self.levels_coeffs ELSE levels,
         table |-> IF failed THEN <<>>
                   ELSE calculate_g_coeffs(variance, levels, variance_tup_dict)]

\* Design.g_coeffs: 'mean' is popped from the dict the session holds before
\* anything is checked; the result says what the call raised, whether it
\* warned of negative components, the levels coefficients the session holds
\* after it, and the table it stored or, with d_study=True, returned.
g_coeffs(self, variance_dictionary, levels_df) ==
    LET variance_tup_dict == PopMean(self.variance_tuple_dictionary)
        out(err, warned, levels, table) ==
            [err |-> err, warned |-> warned,
             variance_tuple_dictionary |-> variance_tup_dict,
             levels_coeffs |-> levels, table |-> table]
        chosen == g_coeffs_variance(self, variance_dictionary, variance_tup_dict)
    IN  IF chosen.err # NoError
        THEN out(chosen.err, FALSE, self.levels_coeffs, <<>>)
        ELSE
        LET variance_df == [key \in DOMAIN chosen.variance_df \ {"mean"} |->
                               chosen.variance_df[key]]
            warned == \E key \in DOMAIN variance_df : RIsNeg(variance_df[key])
            variance == [key \in DOMAIN variance_df |->
                            IF RIsNeg(variance_df[key]) THEN RZero
                            ELSE variance_df[key]]
        IN  IF DOMAIN variance # Keys(variance_tup_dict)
            THEN out(IndexMismatchError, warned, self.levels_coeffs, <<>>)
            ELSE IF levels_df.given
            THEN LET levels == levels_df.val
                 IN  IF DOMAIN levels # DOMAIN variance
                     THEN out(LevelsMismatchError, warned, self.levels_coeffs, <<>>)
                     ELSE IF \E row \in DOMAIN levels : DOMAIN levels[row] # DOMAIN levels
                     THEN out(LevelsShapeError, warned, self.levels_coeffs, <<>>)
                     ELSE IF \E row \in DOMAIN levels : \E col \in DOMAIN levels :
                                 RLeq(levels[row][col], RZero)
                     THEN out(LevelsSignError, warned, self.levels_coeffs, <<>>)
                     ELSE out(NoError, warned, self.levels_coeffs,
                              calculate_g_coeffs(variance, levels, variance_tup_dict))
            ELSE IF self.levels_coeffs # <<>>
            THEN IF DOMAIN self.levels_coeffs # DOMAIN variance
                 THEN out(LevelsMismatchError, warned, self.levels_coeffs, <<>>)
                 ELSE out(NoError, warned, self.levels_coeffs,
                          calculate_g_coeffs(variance, self.levels_coeffs,
                                             variance_tup_dict))
            ELSE IF LevelsCoeffsRaises(self.data, variance_tup_dict)
            THEN out(GroupKeyError, warned, self.levels_coeffs, <<>>)
            ELSE LET levels == calculate_levels_coeffs(self.data, variance_tup_dict)
                 IN  IF DOMAIN levels # DOMAIN variance
                     THEN out(LevelsMismatchError, warned, levels, <<>>)
                     ELSE out(NoError, warned, levels,
                              calculate_g_coeffs(variance, levels, variance_tup_dict))

\* ----------------------------------------------------------------- D study
\* The facets of a dict, in the order its tuples first name them.
RECURSIVE Dedup(_)
Dedup(s) ==
    IF s = <<>> THEN <<>>
    ELSE LET init == Dedup(SubSeq(s, 1, Len(s) - 1))
         IN  IF s[Len(s)] \in Range(init) THEN init ELSE Append(init, s[Len(s)])

FacetSeq(vtd) == Dedup(Concat([k \in 1..Len(vtd) |-> vtd[k].tup]))

\* "x in s" on strings
Contains(s, sub) ==
    \E k \in 1..(Len(s) - Len(sub) + 1) : SubSeq(s, k, k + Len(sub) - 1) = sub

\* nested_vars of create_pseudo_df: the parents of a facet, read off the
\* components named with ':' and without ' x '; a facet without parents is not
\* a key of nested_vars.
NestedVars(vtd, child) ==
    {parent \in FacetsOf(vtd) :
        \E c \in Range(vtd) :
            /\ Contains(c.name, ":") /\ ~Contains(c.name, " x ")
            /\ \E i \in 1..(Len(c.tup) - 1) :
                   c.tup[i] = child /\ c.tup[i + 1] = parent}

\* One pass of the for loop inside the while loop: a remaining facet whose
\* parents are all ordered is appended and removed.
RECURSIVE AddNested(_, _, _)
AddNested(remaining, ordered, vtd) ==
    IF remaining = <<>> THEN [ordered |-> ordered, remaining |-> <<>>]
    ELSE LET facet == Head(remaining)
             take == /\ NestedVars(vtd, facet) # {}
                     /\ NestedVars(vtd, facet) \subseteq Range(ordered)
             rest == AddNested(Tail(remaining),
                               IF take THEN Append(ordered, facet) ELSE ordered, vtd)
         IN  [ordered |-> rest.ordered,
              remaining |-> IF take THEN rest.remaining
                            ELSE <<facet>> \o rest.remaining]

Reverse(s) == [k \in 1..Len(s) |-> s[Len(s) + 1 - k]]

\* The while loop going on until no facet remains, the remaining facets never
\* appended.
RECURSIVE order_until_none_remains(_, _, _, _)
order_until_none_remains(remaining, ordered, vtd, passes) ==
    IF remaining = <<>> THEN [ordered |-> ordered, terminated |-> TRUE]
    ELSE IF passes = 0 THEN [ordered |-> ordered, terminated |-> FALSE]
    ELSE order_until_none_remains(AddNested(remaining, ordered, vtd).remaining,
                                  AddNested(remaining, ordered, vtd).ordered,
                                  vtd, passes - 1)

\* The while loop of create_pseudo_df, followed for `passes` turns: a turn
\* makes one pass over the remaining facets; when no ordered facet is among
\* the remaining ones after it, the rest is appended and the loop is left.
RECURSIVE order_remaining_facets(_, _, _, _)
order_remaining_facets(remaining, ordered, vtd, passes) ==
    IF remaining = <<>> THEN [ordered |-> ordered, terminated |-> TRUE]
    ELSE IF passes = 0 THEN [ordered |-> ordered, terminated |-> FALSE]
    ELSE CHOOSE after \in
             {IF Range(pass.ordered) \cap Range(pass.remaining) = {}
              THEN [ordered |-> pass.ordered \o pass.remaining,
                    terminated |-> TRUE]
              ELSE order_remaining_facets(pass.remaining, pass.ordered, vtd,
                                          passes - 1) :
              pass \in {AddNested(remaining, ordered, vtd)}} : TRUE

\* The ordering of the facets by create_pseudo_df, before it is reversed.  The
\* set of facets is walked in the order of the keys of d_study.
order_facets(facets, vtd) ==
    order_remaining_facets(
        SelectSeq(facets, LAMBDA f : NestedVars(vtd, f) # {}),
        SelectSeq(facets, LAMBDA f : NestedVars(vtd, f) = {}),
        vtd, MaxPasses)

\* ordered_facets of create_pseudo_df.
OrderedFacets(facets, vtd) == Reverse(order_facets(facets, vtd).ordered)

\* The table with the levels of each facet running over range(1, n + 2).
create_pseudo_df_long(d_study, vtd) ==
    LET facets == [k \in 1..Len(d_study) |-> d_study[k].facet]
        levels == [f \in Range(facets) |->
                      (CHOOSE item \in Range(d_study) : item.facet = f).level + 1]
    IN  CrossRows(OrderedFacets(facets, vtd), levels)

\* create_pseudo_df: d_study is a dict facet -> number of levels, given as
\* the sequence of its items.
create_pseudo_df(d_study, vtd) ==
    LET facets == [k \in 1..Len(d_study) |-> d_study[k].facet]
        levels == [f \in Range(facets) |->
                      (CHOOSE item \in Range(d_study) : item.facet = f).level]
    IN  CrossRows(OrderedFacets(facets, vtd), levels)

\* ', '.join(f"{key}: {value}" ...)
RECURSIVE JoinComma(_)
JoinComma(parts) ==
    IF parts = <<>> THEN ""
    ELSE IF Len(parts) = 1 THEN parts[1]
    ELSE parts[1] \o ", " \o JoinComma(Tail(parts))

ScenarioLabel(study_design) ==
    JoinComma([k \in 1..Len(study_design) |->
                  study_design[k].facet \o ": " \o ToString(study_design[k].level)])

\* The label of a pseudo counts table: each column with its values.
FrameLabel(columns, df) ==
    JoinComma([k \in 1..Len(columns) |->
                  columns[k] \o ": "
                      \o ToString([r \in 1..Len(df) |-> df[r][columns[k]]])])

\* itertools.product of the level lists, as design scenarios.
RECURSIVE Product(_)
Product(d_study_design) ==
    IF d_study_design = <<>> THEN << <<>> >>
    ELSE LET item == Head(d_study_design)
             rest == Product(Tail(d_study_design))
         IN  Concat([a \in 1..Len(item.levels) |->
                        [b \in 1..Len(rest) |->
                            <<[facet |-> item.facet, level |-> item.levels[a]]>>
                                \o rest[b]]])

\* _process_d_study_helper: the levels coefficients of the pseudo counts, the
\* G coefficients under them, stored in d_study_dict under the label.
process_d_study_helper(self, pseudo_counts_df, variance_dictionary, scenario_label) ==
    IF LevelsCoeffsRaises(pseudo_counts_df, self.variance_tuple_dictionary)
    THEN [err |-> GroupKeyError, warned |-> FALSE,
          variance_tuple_dictionary |-> self.variance_tuple_dictionary,
          levels_coeffs |-> self.levels_coeffs,
          d_study_dict |-> self.d_study_dict]
    ELSE CHOOSE stored \in
             {[err |-> r.err, warned |-> r.warned,
               variance_tuple_dictionary |-> r.variance_tuple_dictionary,
               levels_coeffs |-> r.levels_coeffs,
               d_study_dict |-> IF r.err = NoError
                                THEN (scenario_label :> r.table) @@ self.d_study_dict
                                ELSE self.d_study_dict] :
              r \in {g_coeffs(self, variance_dictionary,
                              Kwarg(pseudo_levels_df)) :
                     pseudo_levels_df \in
                         {calculate_levels_coeffs(
                              pseudo_counts_df,
                              self.variance_tuple_dictionary)}}} : TRUE

\* A loop that keeps the last scenario only.
d_study_last_scenario(self, scenarios, variance_dictionary, n) ==
    IF n = 0
    THEN [err |-> NoError, warned |-> FALSE,
          variance_tuple_dictionary |-> self.variance_tuple_dictionary,
          levels_coeffs |-> self.levels_coeffs,
          d_study_dict |-> self.d_study_dict]
    ELSE process_d_study_helper(self, scenarios[n].df, variance_dictionary,
                                scenarios[n].label)

\* The D-study loop over the first n scenarios, each a label and a pseudo
\* counts table; it stops at the first scenario that raises.
RECURSIVE d_study_loop(_, _, _, _)
d_study_loop(self, scenarios, variance_dictionary, n) ==
    IF n = 0
    THEN [err |-> NoError, warned |-> FALSE,
          variance_tuple_dictionary |-> self.variance_tuple_dictionary,
          levels_coeffs |-> self.levels_coeffs,
          d_study_dict |-> self.d_study_dict]
    ELSE CHOOSE after \in
             {IF before.err # NoError THEN before
              ELSE CHOOSE stored \in
                       {[r EXCEPT !.warned = r.warned \/ before.warned] :
                        r \in {process_d_study_helper(
                                   session, scenarios[n].df,
                                   variance_dictionary, scenarios[n].label) :
                               session \in
                                   {[self EXCEPT
                                        !.variance_tuple_dictionary =
                                            before.variance_tuple_dictionary,
                                        !.levels_coeffs = before.levels_coeffs,
                                        !.d_study_dict = before.d_study_dict]}}} :
                       TRUE :
              before \in {d_study_loop(self, scenarios, variance_dictionary,
                                       n - 1)}} : TRUE

\* Design.calculate_d_study with a d_study_design dict (the sequence of its
\* items, each a facet and its list of level counts).
d_study_by_levels(self, d_study_design) ==
    LET unchanged(err) ==
            [err |-> err, warned |-> FALSE,
             variance_tuple_dictionary |-> self.variance_tuple_dictionary,
             levels_coeffs |-> self.levels_coeffs,
             d_study_dict |-> self.d_study_dict]
        all_facets == FacetsOf(self.variance_tuple_dictionary)
        study_designs == Product(d_study_design)
    IN  IF \E k \in 1..Len(d_study_design) : d_study_design[k].facet \notin all_facets
        THEN unchanged(UnknownFacetError)
        ELSE IF \E k \in 1..Len(d_study_design) :
                    \E j \in 1..Len(d_study_design[k].levels) :
                        d_study_design[k].levels[j] <= 0
        THEN unchanged(LevelValueError)
        ELSE d_study_loop(
                 self,
                 [k \in 1..Len(study_designs) |->
                     [label |-> ScenarioLabel(study_designs[k]),
                      df |-> create_pseudo_df(study_designs[k],
                                              self.variance_tuple_dictionary)]],
                 NoKwarg, Len(study_designs))

\* Design.calculate_d_study with pseudo_counts_dfs (each table with its
\* columns in order): the variances are the caller's variance_dictionary or,
\* without one, those of anova_table but the one of 'mean'.
d_study_by_pseudo_counts(self, pseudo_counts_dfs, supplied) ==
    LET unchanged(err) ==
            [err |-> err, warned |-> FALSE,
             variance_tuple_dictionary |-> self.variance_tuple_dictionary,
             levels_coeffs |-> self.levels_coeffs,
             d_study_dict |-> self.d_study_dict]
        all_facets == FacetsOf(self.variance_tuple_dictionary)
        variance_dictionary == IF supplied.given THEN supplied.val
                               ELSE VarianceColumn(self.anova_table)
    IN  IF \E k \in 1..Len(pseudo_counts_dfs) : pseudo_counts_dfs[k].df = <<>>
        THEN unchanged(EmptyFrameError)
        ELSE IF \E k \in 1..Len(pseudo_counts_dfs) :
                    ~(Range(pseudo_counts_dfs[k].columns) \subseteq all_facets)
        THEN unchanged(ColumnsError)
        ELSE IF supplied.given
                /\ \E key \in DOMAIN variance_dictionary :
                       RIsNeg(variance_dictionary[key])
        THEN unchanged(NegativeVarianceError)
        ELSE IF DOMAIN variance_dictionary # Keys(self.variance_tuple_dictionary)
        THEN unchanged(KeysMismatchError)
        ELSE d_study_loop(
                 self,
                 [k \in 1..Len(pseudo_counts_dfs) |->
                     [label |-> FrameLabel(pseudo_counts_dfs[k].columns,
                                           pseudo_counts_dfs[k].df),
                      df |-> pseudo_counts_dfs[k].df]],
                 Kwarg(variance_dictionary), Len(pseudo_counts_dfs))

\* ------------------------------------------------------ confidence intervals
\* The mean of the response over each group of the data by the facets of tup,
\* keyed by the levels of the group.
GroupMeans(df, tup, col) ==
    LET cols == Range(tup)
        level(k) == [i \in 1..Len(tup) |-> df[k][tup[i]]]
        total(g) == SumTo([k \in 1..Len(df) |->
                              IF SameGroup(df, k, g, cols) THEN df[k][col] ELSE 0],
                          Len(df))
    IN  [lv \in {level(k) : k \in 1..Len(df)} |->
            LET g == CHOOSE k \in 1..Len(df) : level(k) = lv
            IN  Rat(total(g), GroupSize(df, g, cols))]

\* The quantile of the lower tail, norm.ppf(alpha / 2).
ZScoreLowerTail(a) ==
    IF a = <<1, 100>> THEN <<-12879, 5000>>
    ELSE IF a = <<1, 20>> THEN <<-49, 25>>
    ELSE RZero

\* scipy.stats.norm.ppf(1 - alpha / 2) for the significance levels the callers
\* ask for, to 4 decimals; 0, the median, for any other level.
ZScore(a) ==
    IF a = <<1, 100>> THEN <<12879, 5000>>
    ELSE IF a = <<1, 20>> THEN <<49, 25>>
    ELSE RZero

\* The keys without the removal of the largest facet.
confidence_interval_keys_unfiltered(variance_dict, vtd) == DOMAIN variance_dict

\* The keys of confidence_intervals: those of variance_dict but the one with
\* the longest tuple.
confidence_interval_keys(variance_dict, vtd) ==
    DOMAIN variance_dict
        \ {MaxFacet(SelectSeq(vtd, LAMBDA c : c.name \in DOMAIN variance_dict))}

\* The test with the ends of the interval let through: not (0 <= alpha <= 1).
alpha_out_of_range_open(a) == ~(RLeq(RZero, a) /\ RLeq(a, ROne))

\* The first test of calculate_confidence_intervals: not (0 < alpha < 1).
alpha_out_of_range(a) == ~(RLess(RZero, a) /\ RLess(a, ROne))

\* The sum with the component's own variance counted in.
sigma_squared_with_own(variance_dict, levels_df, key) ==
    RSumF([var \in DOMAIN variance_dict |->
              RMul(variance_dict[var], levels_df[key][var])])

\* sigma_squared of one key of confidence_intervals: the sum over the other
\* keys of variance x levels coefficient.
sigma_squared_of(variance_dict, levels_df, key) ==
    RSumF([var \in DOMAIN variance_dict \ {key} |->
              RMul(variance_dict[var], levels_df[key][var])])

\* Design.calculate_confidence_intervals without keyword arguments.  An entry
\* holds the group means and the things its bounds are made of: the bounds are
\* mean -/+ interval, interval = z * sqrt(sigma_squared), z = ZScore(alpha).
confidence_intervals_of(self, a) ==
    LET out(err, warned, al, levels, ci) ==
            [err |-> err, warned |-> warned, alpha |-> al,
             levels_coeffs |-> levels, confidence_intervals |-> ci]
    IN  IF alpha_out_of_range(a)
        THEN out(AlphaError, FALSE, self.alpha, self.levels_coeffs,
                 self.confidence_intervals)
        ELSE IF self.anova_table = <<>>
        THEN out(AnovaFirstError, FALSE, a, self.levels_coeffs,
                 self.confidence_intervals)
        ELSE
        LET estimate == VarianceColumn(self.anova_table)
            warned == \E key \in DOMAIN estimate : RIsNeg(estimate[key])
            variance_dict == [key \in DOMAIN estimate |->
                                 IF RIsNeg(estimate[key]) THEN RZero
                                 ELSE estimate[key]]
            levels_df == IF self.levels_coeffs # <<>> THEN self.levels_coeffs
                         ELSE calculate_levels_coeffs(self.data,
                                                      self.variance_tuple_dictionary)
        IN  IF DOMAIN levels_df # DOMAIN variance_dict
            THEN out(LevelsMismatchError, warned, a, levels_df,
                     self.confidence_intervals)
            ELSE out(NoError, warned, a, levels_df,
                     [key \in confidence_interval_keys(
                                 variance_dict, self.variance_tuple_dictionary) |->
                         [alpha |-> a,
                          z |-> ZScore(a),
                          sigma_squared |->
                              sigma_squared_of(variance_dict, levels_df, key),
                          mean |-> GroupMeans(self.data,
                                              TupOf(self.variance_tuple_dictionary, key),
                                              self.response_col)]])

\* --------------------------------------------------------------- the calls
\* The attributes of the Design object.
Self ==
    [data |-> data, response_col |-> response_col,
     variance_tuple_dictionary |-> variance_tuple_dictionary, T |-> T,
     variance_coeffs_table |-> variance_coeffs_table, anova_table |-> anova_table,
     levels_coeffs |-> levels_coeffs, g_coeffs_table |-> g_coeffs_table,
     d_study_dict |-> d_study_dict, confidence_intervals |-> confidence_intervals,
     alpha |-> alpha]

\* The call about to be made has the operation and the arguments of the call
\* made last.
Repeats(op, fixed_facets, variance_dictionary, d_study_design, pseudo_counts_dfs, a) ==
    /\ call.op = op
    /\ call.fixed_facets = fixed_facets
    /\ call.variance_dictionary = variance_dictionary
    /\ call.d_study_design = d_study_design
    /\ call.pseudo_counts_dfs = pseudo_counts_dfs
    /\ call.alpha = a

Call(op, fixed_facets, variance_dictionary, d_study_design, pseudo_counts_dfs, a, err, warned) ==
    [op |-> op, fixed_facets |-> fixed_facets,
     variance_dictionary |-> variance_dictionary,
     d_study_design |-> d_study_design, pseudo_counts_dfs |-> pseudo_counts_dfs,
     alpha |-> a, err |-> err, warned |-> warned,
     repeats |-> Repeats(op, fixed_facets, variance_dictionary, d_study_design,
                         pseudo_counts_dfs, a)]

\* Design.calculate_anova: _calculate_T_values, then
\* _create_variance_coefficients_table, then _calculate_variance; each step
\* keeps what the steps before it stored.
design_calculate_anova(self) ==
    LET t == calculate_T_values(self.data, self.variance_tuple_dictionary,
                                self.response_col, self.T)
    IN  IF ~t.ok
        THEN [err |-> TValuesError, T |-> t.T,
              variance_coeffs_table |-> self.variance_coeffs_table,
              anova_table |-> self.anova_table]
        ELSE LET coeffs == create_variance_coefficients_table(
                               self.data, self.variance_tuple_dictionary)
                 v == calculate_variance(coeffs, t.T, self.variance_tuple_dictionary)
             IN  [err |-> IF v.ok THEN NoError ELSE SingularMatrixError,
                  T |-> t.T, variance_coeffs_table |-> coeffs,
                  anova_table |-> IF v.ok THEN v.table ELSE self.anova_table]

\* GeneralizIT.calculate_anova
calculate_anova ==
    /\ calls < MaxCalls /\ calls * Len(data) < MaxWork
    /\ \E r \in {design_calculate_anova(Self)} :
           /\ T' = r.T
           /\ variance_coeffs_table' = r.variance_coeffs_table
           /\ anova_table' = r.anova_table
           /\ call' = Call("calculate_anova", NoKwarg, NoKwarg, NoKwarg, NoKwarg,
                           alpha, r.err, FALSE)
           /\ UNCHANGED <<data, response_col, variance_tuple_dictionary,
                          levels_coeffs, g_coeffs_table, d_study_dict,
                          confidence_intervals, alpha>>
           /\ calls' = calls + 1

\* The validation of fixed_facets by calculate_g_coefficients ("" when it
\* passes).
fixed_facets_error(vtd, fixed_facets) ==
    LET max_tuple == TupOf(vtd, MaxFacet(vtd))
    IN  IF ~fixed_facets.given THEN NoError
        ELSE IF Len(fixed_facets.val) > Len(max_tuple) - 2 THEN FixedCountError
        ELSE IF \E k \in 1..Len(fixed_facets.val) :
                    fixed_facets.val[k] \notin FacetsOf(vtd)
        THEN FixedFacetError
        ELSE NoError

\* GeneralizIT.calculate_g_coefficients: anova_table is never None, the fixed
\* facets are checked, and Design.g_coeffs is called with fixed_facets among
\* its keyword arguments, where nothing reads it.
generalizit_calculate_g_coefficients(self, fixed_facets, variance_dictionary) ==
    LET refused == fixed_facets_error(self.variance_tuple_dictionary, fixed_facets)
    IN  IF refused # NoError
        THEN [err |-> refused, warned |-> FALSE,
              variance_tuple_dictionary |-> self.variance_tuple_dictionary,
              levels_coeffs |-> self.levels_coeffs, table |-> <<>>]
        ELSE g_coeffs(self, variance_dictionary, NoKwarg)

\* The variance dictionaries a caller supplies: one value for the first
\* component and one for the others.
UserValues == {<<-1, 1>>, <<1, 1>>}

UserVariance(vtd, ab) ==
    [key \in Keys(PopMean(vtd)) |->
        IF key = vtd[1].name THEN RInt(ab[1]) ELSE RInt(ab[2])]

\* One call of calculate_g_coefficients.
g_coefficients_step(fixed_facets, variance_dictionary) ==
    \E r \in {generalizit_calculate_g_coefficients(Self, fixed_facets,
                                                   variance_dictionary)} :
        /\ variance_tuple_dictionary' = r.variance_tuple_dictionary
        /\ levels_coeffs' = r.levels_coeffs
        /\ g_coeffs_table' = IF r.err = NoError THEN r.table ELSE g_coeffs_table
        /\ call' = Call("calculate_g_coefficients", fixed_facets,
                        variance_dictionary, NoKwarg, NoKwarg, alpha, r.err,
                        r.warned)
        /\ UNCHANGED <<data, response_col, T, variance_coeffs_table, anova_table,
                       d_study_dict, confidence_intervals, alpha>>
        /\ calls' = calls + 1

calculate_g_coefficients ==
    /\ calls < MaxCalls /\ calls * Len(data) < MaxWork
    /\ \E fixed_facets \in {NoKwarg, Kwarg(<<"i">>)} :
       \E variance_dictionary \in
              {NoKwarg} \cup {Kwarg(UserVariance(variance_tuple_dictionary, ab)) :
                                 ab \in UserValues} :
           g_coefficients_step(fixed_facets, variance_dictionary)

\* The level lists a D-study gives its first facet; the other facets get the
\* single level count MaxDLevel.
DLevelLists ==
    {<<n>> : n \in 1..(MaxDLevel - 1)} \cup {<<n, MaxDLevel>> : n \in 1..MaxDLevel}

DStudyDesigns(vtd) ==
    LET facets == FacetSeq(vtd)
    IN  {[k \in 1..Len(facets) |->
             [facet |-> facets[k],
              levels |-> IF k = 1 THEN list ELSE <<MaxDLevel>>]] :
         list \in DLevelLists}

\* The pseudo counts a caller supplies: one table, every facet at MaxDLevel
\* levels.
PseudoCounts(vtd) ==
    LET facets == FacetSeq(vtd)
    IN  <<[columns |-> facets,
           df |-> CrossRows(facets, [f \in Range(facets) |-> MaxDLevel])]>>

\* Design.calculate_d_study
design_calculate_d_study(self, d_study_design, pseudo_counts_dfs, variance_dictionary) ==
    IF d_study_design.given
    THEN d_study_by_levels(self, d_study_design.val)
    ELSE d_study_by_pseudo_counts(self, pseudo_counts_dfs.val, variance_dictionary)

\* One call of calculate_d_study: GeneralizIT.calculate_d_study refuses while
\* anova_table is empty; a call made on the Design itself (direct) differs
\* from it only then.
d_study_step(direct, d_study_design, pseudo_counts_dfs, variance_dictionary) ==
    \E r \in {IF ~direct /\ anova_table = <<>>
              THEN [err |-> AnovaRuntimeError, warned |-> FALSE,
                    variance_tuple_dictionary |-> variance_tuple_dictionary,
                    levels_coeffs |-> levels_coeffs,
                    d_study_dict |-> d_study_dict]
              ELSE design_calculate_d_study(Self, d_study_design,
                                            pseudo_counts_dfs,
                                            variance_dictionary)} :
        /\ variance_tuple_dictionary' = r.variance_tuple_dictionary
        /\ levels_coeffs' = r.levels_coeffs
        /\ d_study_dict' = r.d_study_dict
        /\ call' = Call("calculate_d_study", NoKwarg, variance_dictionary,
                        d_study_design, pseudo_counts_dfs, alpha, r.err, r.warned)
        /\ UNCHANGED <<data, response_col, T, variance_coeffs_table, anova_table,
                       g_coeffs_table, confidence_intervals, alpha>>
        /\ calls' = calls + 1

calculate_d_study ==
    /\ calls < MaxCalls /\ calls * Len(data) < MaxWork
    /\ \E direct \in IF anova_table = <<>> THEN BOOLEAN ELSE {FALSE} :
       \E args \in {[d_study_design |-> Kwarg(d), pseudo_counts_dfs |-> NoKwarg] :
                       d \in DStudyDesigns(variance_tuple_dictionary)}
                   \cup {[d_study_design |-> NoKwarg,
                          pseudo_counts_dfs |->
                              Kwarg(PseudoCounts(variance_tuple_dictionary))]} :
           d_study_step(direct, args.d_study_design, args.pseudo_counts_dfs,
                        NoKwarg)

\* The significance levels a caller asks for: the default and one outside
\* (0, 1).
Alphas == {<<1, 20>>, <<0, 1>>}

\* One call of calculate_confidence_intervals(alpha): the call of
\* GeneralizIT and, direct, the one made on the Design itself.
confidence_intervals_step(direct, a) ==
    \E r \in {IF ~direct /\ anova_table = <<>>
              THEN [err |-> AnovaRuntimeError, warned |-> FALSE, alpha |-> alpha,
                    levels_coeffs |-> levels_coeffs,
                    confidence_intervals |-> confidence_intervals]
              ELSE confidence_intervals_of(Self, a)} :
        /\ alpha' = r.alpha
        /\ levels_coeffs' = r.levels_coeffs
        /\ confidence_intervals' = r.confidence_intervals
        /\ call' = Call("calculate_confidence_intervals", NoKwarg, NoKwarg,
                        NoKwarg, NoKwarg, a, r.err, r.warned)
        /\ UNCHANGED <<data, response_col, variance_tuple_dictionary, T,
                       variance_coeffs_table, anova_table, g_coeffs_table,
                       d_study_dict>>
        /\ calls' = calls + 1

calculate_confidence_intervals ==
    /\ calls < MaxCalls /\ calls * Len(data) < MaxWork
    /\ \E direct \in IF anova_table = <<>> THEN BOOLEAN ELSE {FALSE} :
       \E a \in Alphas :
           confidence_intervals_step(direct, a)

\* The design strings of the sessions.
DesignStrings == {"p x i", "i:p", "p x i x o"}

\* The designs of the sessions: each design string with the design number and
\* the facets match_research_design reads from it.
Designs ==
    {[design_str |-> design_str,
      design_num |-> match_research_design(design_str).design_num,
      facets |-> match_research_design(design_str).facets] :
        design_str \in DesignStrings}

\* The levels of the observed facets: 1..MaxLevels of the first facet of the
\* design string, MaxLevels of each other one.
SessionLevels(facets) ==
    {[f \in Range(facets) |-> IF f = facets[1] THEN n ELSE MaxLevels] :
        n \in 1..MaxLevels}

\* The facet columns of the table handed to the constructor: those the design
\* names or, for the crossed design of two facets, all but the last of them.
DataFacets(design) ==
    {design.facets}
        \cup IF design.design_num = "crossed" /\ Len(design.facets) = 2
             THEN {SubSeq(design.facets, 1, Len(design.facets) - 1)}
             ELSE {}

\* GeneralizIT._clean_data: the columns that are neither a facet nor the
\* response are dropped; nothing is asked of the columns that remain.
clean_data(df, facets, response) ==
    [k \in 1..Len(df) |->
        [c \in DOMAIN df[k] \cap (Range(facets) \cup {response}) |-> df[k][c]]]

\* GeneralizIT.__init__ with a design string: the facet algebra of the string,
\* the cleaned data, and the error raised ("" when the session is built).
generalizit_init(df, design_str, response) ==
    LET matched == match_research_design(design_str)
    IN  IF matched.err # NoError
        THEN [err |-> matched.err, data |-> <<>>,
              variance_tuple_dictionary |-> <<>>]
        ELSE [err |-> NoError,
              data |-> clean_data(df, matched.facets, response),
              variance_tuple_dictionary |->
                  parse_facets(matched.design_num, matched.facets)]

\* GeneralizIT.__init__ and Design.__init__ on a full table of observations
\* whose response counts the first k facets of the design, k up to MaxCounted.
Init ==
    \E design \in Designs :
    \E columns \in DataFacets(design) :
    \E lv \in SessionLevels(design.facets) :
    \E k \in 0..MaxCounted :
    \E response \in {"Response", "score"} :
    \E built \in {generalizit_init(
                     Observed(columns, lv,
                              {columns[j] : j \in (1..k) \cap (1..Len(columns))},
                              response),
                     design.design_str, response)} :
        /\ data = built.data
        /\ response_col = response
        /\ variance_tuple_dictionary = built.variance_tuple_dictionary
        /\ T = <<>>
        /\ variance_coeffs_table = <<>>
        /\ anova_table = <<>>
        /\ levels_coeffs = <<>>
        /\ g_coeffs_table = <<>>
        /\ d_study_dict = <<>>
        /\ confidence_intervals = <<>>
        /\ alpha = <<1, 20>>
        /\ call = [op |-> "__init__", fixed_facets |-> NoKwarg,
                   variance_dictionary |-> NoKwarg, d_study_design |-> NoKwarg,
                   pseudo_counts_dfs |-> NoKwarg, alpha |-> <<1, 20>>,
                   err |-> built.err, warned |-> FALSE, repeats |-> FALSE]
        /\ calls = 0

Next ==
    \/ calculate_anova
    \/ calculate_g_coefficients
    \/ calculate_d_study
    \/ calculate_confidence_intervals

Spec == Init /\ [][Next]_vars

\* ------------------------------------------------- D studies of a caller
\* A second specification: sessions whose variances the caller supplies.  The
\* caller computes G coefficients from a variance_dictionary, then asks the
\* Design for a D-study of two balanced pseudo counts tables under the same
\* dictionary.
MaxVariance == 2  \* the supplied variances are 0..MaxVariance

\* The dictionaries: every assignment of 0..MaxVariance to the components, of
\* 0..1 when the design has more than three of them.
SuppliedVariances(vtd) ==
    LET keys == Keys(PopMean(vtd))
        most == IF Cardinality(keys) > 3 THEN 1 ELSE MaxVariance
    IN  [keys -> {RInt(v) : v \in 0..most}]

\* The balanced table with n levels of facet f and MaxDLevel of the others.
BalancedCounts(facets, f, n) ==
    [columns |-> facets,
     df |-> CrossRows(facets, [g \in Range(facets) |->
                                  IF g = f THEN n ELSE MaxDLevel])]

\* The pairs of tables that differ in one facet, which has one level more in
\* the second.
PseudoCountsPairs(vtd) ==
    LET facets == FacetSeq(vtd)
    IN  {<<BalancedCounts(facets, f, n), BalancedCounts(facets, f, n + 1)>> :
            f \in Range(facets), n \in 1..MaxDLevel}

\* calculate_g_coefficients(variance_dictionary=...) on a fresh session.
supplied_g_coefficients ==
    /\ calls = 0
    /\ \E variance_dictionary \in SuppliedVariances(variance_tuple_dictionary) :
           g_coefficients_step(NoKwarg, Kwarg(variance_dictionary))

\* Design.calculate_d_study(None, pseudo_counts_dfs=..., variance_dictionary=...)
\* under the dictionary of the call before.
supplied_d_study ==
    /\ calls = 1
    /\ call.err = NoError
    /\ \E pair \in PseudoCountsPairs(variance_tuple_dictionary) :
           d_study_step(TRUE, NoKwarg, Kwarg(pair), call.variance_dictionary)

\* The sessions of the second specification: all-zero responses on the full
\* table of every design.
InitSupplied ==
    /\ Init
    /\ response_col = "Response"
    /\ Len(data) = Len(CrossRows(FacetSeq(variance_tuple_dictionary),
                                 [f \in FacetsOf(variance_tuple_dictionary) |->
                                     MaxLevels]))
    /\ \A k \in 1..Len(data) : data[k][response_col] = 0

NextSupplied ==
    \/ supplied_g_coefficients
    \/ supplied_d_study

SpecSupplied == InitSupplied /\ [][NextSupplied]_vars

\* ------------------------------------------- intervals at several levels
\* A third specification: sessions that ask for confidence intervals at
\* several significance levels, inside (0, 1) and outside.
IntervalAlphas == {<<-1, 20>>, <<0, 1>>, <<1, 100>>, <<1, 20>>, <<1, 1>>}

calculate_confidence_intervals_at ==
    /\ calls < MaxCalls /\ calls * Len(data) < MaxWork
    /\ \E direct \in IF anova_table = <<>> THEN BOOLEAN ELSE {FALSE} :
       \E a \in IntervalAlphas :
           confidence_intervals_step(direct, a)

\* The sessions of the third specification: those whose response column is
\* named 'Response' and whose data have every column of the design.
InitIntervals ==
    /\ Init
    /\ response_col = "Response"
    /\ FacetsOf(variance_tuple_dictionary) \subseteq Columns(data)

NextIntervals ==
    \/ calculate_anova
    \/ calculate_confidence_intervals_at

SpecIntervals == InitIntervals /\ [][NextIntervals]_vars

\* -------------------------------------------- construction from a string
\* A fourth specification: a caller hands GeneralizIT a crossed design string
\* of 2..MaxFacets distinct facets and a table with a column for each.
MaxFacets == 4  \* facets a crossed design string names

FacetNames == {"p", "i", "o", "h", "x"}

\* The sequences of n distinct facet names.
RECURSIVE DistinctFacets(_)
DistinctFacets(n) ==
    IF n = 0 THEN {<<>>}
    ELSE UNION {{Append(facets, f) : f \in FacetNames \ Range(facets)} :
                   facets \in DistinctFacets(n - 1)}

\* The call GeneralizIT(data, design_str, 'Response') about to be made: `data`
\* holds the caller's table, one observation with every facet named.
InitDesigns ==
    \E facets \in UNION {DistinctFacets(n) : n \in 2..MaxFacets} :
        /\ data = Observed(facets, [f \in Range(facets) |-> 1], {}, "Response")
        /\ response_col = "Response"
        /\ variance_tuple_dictionary = <<>>
        /\ T = <<>>
        /\ variance_coeffs_table = <<>>
        /\ anova_table = <<>>
        /\ levels_coeffs = <<>>
        /\ g_coeffs_table = <<>>
        /\ d_study_dict = <<>>
        /\ confidence_intervals = <<>>
        /\ alpha = <<1, 20>>
        /\ call = [op |-> "GeneralizIT", design_str |-> JoinX(facets),
                   err |-> NoError]
        /\ calls = 0

\* GeneralizIT.__init__: the session is built, or the constructor raises and
\* there is none.
construct ==
    /\ call.op = "GeneralizIT"
    /\ \E built \in {generalizit_init(data, call.design_str, response_col)} :
           /\ data' = IF built.err = NoError THEN built.data ELSE data
           /\ variance_tuple_dictionary' = built.variance_tuple_dictionary
           /\ call' = [op |-> "__init__", design_str |-> call.design_str,
                       err |-> built.err]
    /\ UNCHANGED <<response_col, T, variance_coeffs_table, anova_table,
                   levels_coeffs, g_coeffs_table, d_study_dict,
                   confidence_intervals, alpha, calls>>

NextDesigns == construct

SpecDesigns == InitDesigns /\ [][NextDesigns]_vars

\* ------------------------------------------------------- fixed facets
\* A fifth specification: a caller hands adjust_for_fixed_effects a facet
\* algebra, the variances of its components, the levels coefficients of a
\* balanced table and a list of at most MaxFixed distinct fixed facets.
MaxFixed == 2  \* facets a caller fixes

NoneTimesFloatError == "TypeError: unsupported operand type(s) for *: 'NoneType' and 'float'"

\* adjust_for_fixed_effects: the main effects of the fixed facets are popped;
\* each key without a fixed facet (alpha) takes in, for every combination of
\* more than len(alpha) of its facets and the fixed facets, the component of
\* those facets, weighted by levels_df.at[alpha, key], and marks it None; a
\* marked component met again under another alpha is multiplied as None.
\* `absorbed` holds the pairs <<component, alpha>> added up.
adjust_for_fixed_effects(variance_tup_dict, variance_df, levels_df, fixed_facets) ==
    IF ~fixed_facets.given
    THEN [err |-> NoError, absorbed |-> {},
          variance_tuple_dictionary |-> variance_tup_dict,
          variance_df |-> [key \in DOMAIN variance_df |-> variance_df[key].Variance]]
    ELSE
    LET fixed == Range(fixed_facets.val)
        kept == DOMAIN variance_df \ ({"mean"} \cup fixed)
        key_list == {key \in kept : Range(TupOf(variance_tup_dict, key)) \cap fixed = {}}
        interactions(variance) ==
            {key \in kept :
                LET tup == Range(TupOf(variance_tup_dict, key))
                    facets == Range(TupOf(variance_tup_dict, variance))
                IN  /\ tup \subseteq facets \cup fixed
                    /\ Cardinality(tup) > Cardinality(facets)}
        absorbed == {<<key, variance>> : key \in UNION {interactions(v) : v \in key_list},
                                         variance \in key_list}
                        \cap {pair \in kept \X key_list : pair[1] \in interactions(pair[2])}
        taken == {pair[1] : pair \in absorbed}
    IN  IF \E a \in key_list : \E b \in key_list \ {a} :
               interactions(a) \cap interactions(b) # {}
        THEN [err |-> NoneTimesFloatError, absorbed |-> {},
              variance_tuple_dictionary |-> <<>>, variance_df |-> <<>>]
        ELSE [err |-> NoError, absorbed |-> absorbed,
              variance_tuple_dictionary |->
                  SelectSeq(variance_tup_dict, LAMBDA c : c.name \in kept \ taken),
              variance_df |->
                  [key \in kept \ taken |->
                      IF key \in key_list
                      THEN Round4(RAdd(variance_df[key].Variance,
                               RSumF([k \in interactions(key) |->
                                         RMul(variance_df[k].Variance,
                                              levels_df[key][k])])))
                      ELSE variance_df[key].Variance]]

\* The facet algebras handed over: crossed designs of two to four facets and
\* the nested design i:p.
FixedEffectAlgebras ==
    {create_variance_tuple_dictionary("crossed", facets) :
         facets \in {<<"p", "i">>, <<"p", "i", "o">>, <<"p", "i", "o", "h">>}}
        \cup {create_variance_tuple_dictionary("2", <<"i", "p">>)}

\* The lists of at most n distinct facets of a set.
RECURSIVE FixedLists(_, _)
FixedLists(facets, n) ==
    IF n = 0 THEN {<<>>}
    ELSE FixedLists(facets, n - 1)
             \cup UNION {{Append(list, f) : f \in facets \ Range(list)} :
                            list \in FixedLists(facets, n - 1)}

\* The call adjust_for_fixed_effects(variance_tup_dict, variance_df, levels_df,
\* fixed_facets) about to be made: the variance of the j-th component is
\* j + k - 1, the levels coefficients are those of the table with MaxLevels
\* levels of every facet.
InitFixed ==
    \E vtd \in FixedEffectAlgebras :
    \E k \in 1..MaxVariance :
    \E fixed_facets \in {NoKwarg}
            \cup {Kwarg(list) : list \in FixedLists(FacetsOf(vtd), MaxFixed)} :
        /\ data = CrossRows(FacetSeq(vtd), [f \in FacetsOf(vtd) |-> MaxLevels])
        /\ response_col = "Response"
        /\ variance_tuple_dictionary = vtd
        /\ T = <<>>
        /\ variance_coeffs_table = <<>>
        /\ anova_table = [key \in Keys(vtd) |->
                             [Variance |->
                                 RInt(k - 1 + CHOOSE j \in 1..Len(vtd) :
                                                  vtd[j].name = key)]]
        /\ levels_coeffs = calculate_levels_coeffs(data, vtd)
        /\ g_coeffs_table = <<>>
        /\ d_study_dict = <<>>
        /\ confidence_intervals = <<>>
        /\ alpha = <<1, 20>>
        /\ call = [op |-> "", fixed_facets |-> fixed_facets, err |-> NoError,
                   absorbed |-> {}, variance_tuple_dictionary |-> <<>>,
                   variance_df |-> <<>>]
        /\ calls = 0

\* One call of adjust_for_fixed_effects; `call` keeps what it returned.
adjust ==
    /\ calls = 0
    /\ \E r \in {adjust_for_fixed_effects(variance_tuple_dictionary, anova_table,
                                          levels_coeffs, call.fixed_facets)} :
           call' = [op |-> "adjust_for_fixed_effects",
                    fixed_facets |-> call.fixed_facets, err |-> r.err,
                    absorbed |-> r.absorbed,
                    variance_tuple_dictionary |-> r.variance_tuple_dictionary,
                    variance_df |-> r.variance_df]
    /\ calls' = 1
    /\ UNCHANGED <<data, response_col, variance_tuple_dictionary, T,
                   variance_coeffs_table, anova_table, levels_coeffs,
                   g_coeffs_table, d_study_dict, confidence_intervals, alpha>>

NextFixed == adjust

SpecFixed == InitFixed /\ [][NextFixed]_vars

\* ------------------------------------------------------- pseudo counts
\* A sixth specification: a caller hands create_pseudo_df a facet algebra and
\* a dict of level counts, 1..MaxDLevel each, for some of its facets in some
\* order.
PseudoAlgebras ==
    {create_variance_tuple_dictionary("crossed", <<"p", "i", "o">>),
     create_variance_tuple_dictionary("2", <<"i", "p">>),
     << [name |-> "p", tup |-> <<"p">>],
        [name |-> "h:p", tup |-> <<"h", "p">>],
        [name |-> "i:h:p", tup |-> <<"i", "h", "p">>],
        MeanComponent >>,
     << [name |-> "p", tup |-> <<"p">>],
        [name |-> "h", tup |-> <<"h">>],
        [name |-> "i:h", tup |-> <<"i", "h">>],
        [name |-> "p x h", tup |-> <<"p", "h">>],
        [name |-> "p x (i:h)", tup |-> <<"p", "i", "h">>],
        MeanComponent >>}

\* The dicts of level counts over the facets of `keys`, in their order.
LevelCountDicts(keys) ==
    {[k \in 1..Len(keys) |-> [facet |-> keys[k], level |-> counts[k]]] :
        counts \in [1..Len(keys) -> 1..MaxDLevel]}

\* The call create_pseudo_df(d_study, variance_tup_dict) about to be made.
InitPseudo ==
    \E vtd \in PseudoAlgebras :
    \E keys \in FixedLists(FacetsOf(vtd), Cardinality(FacetsOf(vtd))) \ {<<>>} :
    \E d_study \in LevelCountDicts(keys) :
        /\ data = <<>>
        /\ response_col = "Response"
        /\ variance_tuple_dictionary = vtd
        /\ T = <<>>
        /\ variance_coeffs_table = <<>>
        /\ anova_table = <<>>
        /\ levels_coeffs = <<>>
        /\ g_coeffs_table = <<>>
        /\ d_study_dict = <<>>
        /\ confidence_intervals = <<>>
        /\ alpha = <<1, 20>>
        /\ call = [op |-> "", d_study |-> d_study, returned |-> FALSE]
        /\ calls = 0

\* One call of create_pseudo_df; `data` holds the table it returned, if its
\* loop was left within the turns followed.
pseudo ==
    /\ calls = 0
    /\ \E returned \in
              {order_facets([k \in 1..Len(call.d_study) |-> call.d_study[k].facet],
                            variance_tuple_dictionary).terminated} :
           /\ call' = [op |-> "create_pseudo_df", d_study |-> call.d_study,
                       returned |-> returned]
           /\ data' = IF returned
                      THEN create_pseudo_df(call.d_study, variance_tuple_dictionary)
                      ELSE data
    /\ calls' = 1
    /\ UNCHANGED <<response_col, variance_tuple_dictionary, T,
                   variance_coeffs_table, anova_table, levels_coeffs,
                   g_coeffs_table, d_study_dict, confidence_intervals, alpha>>

NextPseudo == pseudo

SpecPseudo == InitPseudo /\ [][NextPseudo]_vars

\* ------------------------------------------------------------ properties
\* Design.g_coeffs was entered by the last call.
GCoeffsCalled ==
    /\ call.op = "calculate_g_coefficients"
    /\ call.err \notin {FixedCountError, FixedFacetError}

\* The last call passed a variance_dictionary with a negative value.
SuppliedNegative ==
    /\ call.variance_dictionary.given
    /\ \E key \in DOMAIN call.variance_dictionary.val :
           RIsNeg(call.variance_dictionary.val[key])

\* The ANOVA table holds a negative estimate.
NegativeEstimate ==
    /\ anova_table # <<>>
    /\ \E key \in DOMAIN anova_table \ {"mean"} : RIsNeg(anova_table[key].Variance)

\* C1, as the code has it: g_coeffs called with a variance_dictionary that
\* contains a negative value raises ValueError "Variance component is
\* negative.", warns of nothing and leaves g_coeffs_table as it was.
C1_SuppliedNegativeRaises ==
    [][(GCoeffsCalled' /\ SuppliedNegative') =>
           /\ call'.err = NegativeVarianceError
           /\ ~call'.warned
           /\ g_coeffs_table' = g_coeffs_table]_vars

\* C1: such a call was made on a session that had a G-coefficient table.
C1_SuppliedNegativeSeen ==
    /\ GCoeffsCalled /\ SuppliedNegative
    /\ call.err = NegativeVarianceError
    /\ g_coeffs_table # <<>>

\* C1, as the specification states it: g_coeffs called with a variance_dictionary that
\* contains a negative value does not raise, and warns.
C1_SuppliedNegativeClipped ==
    (GCoeffsCalled /\ SuppliedNegative) => (call.err = NoError /\ call.warned)

\* C2: when g_coeffs() fails because calculate_anova has not been run, the
\* session is what it was before the call: variance_tuple_dictionary,
\* anova_table, levels_coeffs and g_coeffs_table are unchanged.
C2_FailedGCoeffsKeepsSession ==
    [][(call'.op = "calculate_g_coefficients" /\ call'.err = AnovaFirstError) =>
           /\ variance_tuple_dictionary' = variance_tuple_dictionary
           /\ anova_table' = anova_table
           /\ levels_coeffs' = levels_coeffs
           /\ g_coeffs_table' = g_coeffs_table]_vars

\* C3: while calculate_anova has never completed (anova_table is empty), each
\* of g_coeffs(), calculate_d_study(d_study_design) and
\* calculate_confidence_intervals(), called without a variance dictionary,
\* raises, and g_coeffs_table, d_study_dict and confidence_intervals stay as
\* they were, so empty where they were empty.
C3_NothingBeforeAnova ==
    [][(/\ anova_table = <<>>
        /\ \/ call'.op = "calculate_g_coefficients"
              /\ ~call'.variance_dictionary.given
           \/ call'.op = "calculate_d_study" /\ call'.d_study_design.given
           \/ call'.op = "calculate_confidence_intervals") =>
           /\ call'.err # NoError
           /\ g_coeffs_table' = g_coeffs_table
           /\ d_study_dict' = d_study_dict
           /\ confidence_intervals' = confidence_intervals]_vars

\* C3: calculate_d_study(d_study_design) reached Design.g_coeffs on a session
\* without ANOVA and was refused there; the three tables are empty.
C3_RefusedBeforeAnova ==
    /\ call.op = "calculate_d_study" /\ call.d_study_design.given
    /\ call.err = AnovaFirstError
    /\ anova_table = <<>>
    /\ g_coeffs_table = <<>> /\ d_study_dict = <<>> /\ confidence_intervals = <<>>

\* C4, on the sessions that computed G coefficients before (so that 'mean' is
\* no key of variance_tuple_dictionary any more): whenever the variances are
\* taken from the ANOVA table and some estimate is negative, g_coeffs,
\* calculate_d_study (with a level-count design or with pseudo_counts_dfs) and
\* calculate_confidence_intervals complete without error.
C4_NegativeEstimatesNeverFail ==
    (/\ NegativeEstimate
     /\ "mean" \notin Keys(variance_tuple_dictionary)
     /\ \/ GCoeffsCalled /\ ~call.variance_dictionary.given
        \/ call.op = "calculate_d_study"
        \/ call.op = "calculate_confidence_intervals" /\ call.err # AlphaError) =>
        call.err = NoError

\* C5: when g_coeffs returns, its table has a row for every component other
\* than 'mean' and the largest one.
C5_NoRowMissing ==
    (GCoeffsCalled /\ call.err = NoError) =>
        DOMAIN g_coeffs_table =
            Keys(variance_tuple_dictionary)
                \ {"mean", MaxFacet(variance_tuple_dictionary)}

\* A row of a G-coefficient table with 0 <= phi^2 <= rho^2 <= 1.
Ordered(row) ==
    /\ RLeq(RZero, row.phi2)
    /\ RLeq(row.phi2, row.rho2)
    /\ RLeq(row.rho2, ROne)

\* C6: in every G-coefficient table produced by g_coeffs or by
\* calculate_d_study, each row satisfies 0 <= phi^2 <= rho^2 <= 1.
C6_CoefficientsOrdered ==
    /\ \A facet \in DOMAIN g_coeffs_table : Ordered(g_coeffs_table[facet])
    /\ \A label \in DOMAIN d_study_dict :
           \A facet \in DOMAIN d_study_dict[label] :
               Ordered(d_study_dict[label][facet])

\* C6: a table of g_coeffs holds a row with 0 < phi^2 < rho^2 < 1, and a table
\* of calculate_d_study holds a row.
C6_StrictlyBetween ==
    /\ \E facet \in DOMAIN g_coeffs_table :
           LET row == g_coeffs_table[facet]
           IN  RLess(RZero, row.phi2) /\ RLess(row.phi2, row.rho2)
                   /\ RLess(row.rho2, ROne)
    /\ \E label \in DOMAIN d_study_dict : DOMAIN d_study_dict[label] # {}

\* The labels of the scenarios of the d_study_design of the last call.
ScenarioLabels ==
    LET study_designs == Product(call.d_study_design.val)
    IN  {ScenarioLabel(study_designs[k]) : k \in 1..Len(study_designs)}

\* The product of the lengths of the level lists of the last call.
RECURSIVE ProductOfLengths(_)
ProductOfLengths(d_study_design) ==
    IF d_study_design = <<>> THEN 1
    ELSE Len(Head(d_study_design).levels) * ProductOfLengths(Tail(d_study_design))

\* The d_study_design of the last call repeats no level in a list.
NoLevelTwice ==
    \A k \in 1..Len(call.d_study_design.val) :
        LET levels == call.d_study_design.val[k].levels
        IN  Cardinality(Range(levels)) = Len(levels)

C8_NoRowForFixedFacet ==
    (/\ call.op = "calculate_g_coefficients"
     /\ call.fixed_facets.given /\ call.fixed_facets.val # <<>>
     /\ call.err = NoError) =>
        \A k \in 1..Len(call.fixed_facets.val) :
            call.fixed_facets.val[k] \notin DOMAIN g_coeffs_table

\* The last call was a calculate_confidence_intervals that returned.
IntervalsReturned ==
    call.op = "calculate_confidence_intervals" /\ call.err = NoError

C10_SingularDesignRefused ==
    [][(/\ call'.op = "calculate_anova"
        /\ call'.err # TValuesError
        /\ ~calculate_variance(variance_coeffs_table', T',
                               variance_tuple_dictionary).ok) =>
           /\ call'.err \notin {NoError, SingularMatrixError}
           /\ anova_table' = anova_table]_vars

\* The design of the session names a facet that is no column of its data.
FacetWithoutColumn ==
    ~(FacetsOf(variance_tuple_dictionary) \subseteq Columns(data))

\* C11: constructing a session whose design names a facet that is not a
\* column of the dataset fails at construction; no such session is built.
C11_MissingFacetRefusedAtConstruction ==
    (call.op = "__init__" /\ FacetWithoutColumn) => call.err # NoError

\* The four result tables of the session.
ResultTables == <<anova_table, g_coeffs_table, d_study_dict, confidence_intervals>>

\* The operations C12 names.
Calculations ==
    {"calculate_anova", "calculate_g_coefficients", "calculate_d_study",
     "calculate_confidence_intervals"}

\* C12: each of calculate_anova, g_coeffs, calculate_d_study and
\* calculate_confidence_intervals is idempotent: a call that repeats the call
\* before it, with the same arguments, leaves anova_table, g_coeffs_table,
\* d_study_dict and confidence_intervals as the first call left them.
C12_RepeatedCallChangesNothing ==
    [][(call'.op \in Calculations /\ call'.repeats) =>
           ResultTables' = ResultTables]_vars

\* C12: a D-study was repeated on a session whose four tables are filled.
C12_RepeatedDStudy ==
    /\ call.op = "calculate_d_study" /\ call.repeats /\ call.err = NoError
    /\ anova_table # <<>> /\ d_study_dict # <<>>

\* The scenarios of the D-study of the last call: the label and the pseudo
\* counts table of each.
ScenariosOfCall ==
    IF call.d_study_design.given
    THEN {[label |-> ScenarioLabel(study_design),
           df |-> create_pseudo_df(study_design, variance_tuple_dictionary)] :
             study_design \in Range(Product(call.d_study_design.val))}
    ELSE {[label |-> FrameLabel(counts.columns, counts.df), df |-> counts.df] :
             counts \in Range(call.pseudo_counts_dfs.val)}

\* The G coefficients of the variances in anova_table, negative ones set to 0,
\* under the levels coefficients of a pseudo counts table.
DStudyTable(pseudo_counts_df) ==
    calculate_g_coeffs(
        [key \in DOMAIN anova_table \ {"mean"} |->
            IF RIsNeg(anova_table[key].Variance) THEN RZero
            ELSE anova_table[key].Variance],
        calculate_levels_coeffs(pseudo_counts_df, variance_tuple_dictionary),
        PopMean(variance_tuple_dictionary))

\* The tables of the D-study of the last call are those of the variances in
\* anova_table under the levels coefficients of the pseudo counts.
DStudyFromAnova ==
    (call.op = "calculate_d_study" /\ call.err = NoError) =>
        \A scenario \in ScenariosOfCall :
            d_study_dict[scenario.label] = DStudyTable(scenario.df)

LevelsOf(df, column) == Cardinality({df[k][column] : k \in 1..Len(df)})

\* Two pseudo counts tables differ only in that one facet has more levels in
\* the second.
OneFacetHasMoreLevels(first, second) ==
    /\ first.columns = second.columns
    /\ \E f \in Range(first.columns) :
           /\ LevelsOf(first.df, f) < LevelsOf(second.df, f)
           /\ \A g \in Range(first.columns) \ {f} :
                  LevelsOf(first.df, g) = LevelsOf(second.df, g)

\* The last call was a D-study of two pseudo counts tables that returned.
DStudyOfTwoTables ==
    /\ call.op = "calculate_d_study" /\ call.err = NoError
    /\ call.pseudo_counts_dfs.given /\ Len(call.pseudo_counts_dfs.val) = 2

\* The table of the n-th pseudo counts table of the last call.
TableOf(n) ==
    LET counts == call.pseudo_counts_dfs.val[n]
    IN  d_study_dict[FrameLabel(counts.columns, counts.df)]

\* C14: D-study monotonicity: for a balanced design and fixed non-negative
\* variances, when two scenarios differ only in that one facet has more
\* levels in the second, every facet of differentiation has rho^2 and phi^2
\* in the second at least what they are in the first.
C14_MoreLevelsNeverLower ==
    (/\ DStudyOfTwoTables
     /\ OneFacetHasMoreLevels(call.pseudo_counts_dfs.val[1],
                              call.pseudo_counts_dfs.val[2])) =>
        /\ DOMAIN TableOf(1) = DOMAIN TableOf(2)
        /\ \A facet \in DOMAIN TableOf(1) :
               /\ RLeq(TableOf(1)[facet].rho2, TableOf(2)[facet].rho2)
               /\ RLeq(TableOf(1)[facet].phi2, TableOf(2)[facet].phi2)

\* C14: a facet of differentiation gained in rho^2 and in phi^2 from the
\* first scenario to the second, and another one kept both.
C14_SomeCoefficientRose ==
    /\ DStudyOfTwoTables
    /\ OneFacetHasMoreLevels(call.pseudo_counts_dfs.val[1],
                             call.pseudo_counts_dfs.val[2])
    /\ \E facet \in DOMAIN TableOf(1) :
           /\ RLess(TableOf(1)[facet].rho2, TableOf(2)[facet].rho2)
           /\ RLess(TableOf(1)[facet].phi2, TableOf(2)[facet].phi2)
    /\ \E facet \in DOMAIN TableOf(1) : TableOf(1)[facet] = TableOf(2)[facet]

\* A significance level strictly between 0 and 1.
ValidAlpha(a) == RLess(RZero, a) /\ RLess(a, ROne)

\* C15: calculate_confidence_intervals(alpha) with alpha <= 0 or alpha >= 1
\* raises (the ValueError of the Design or, in the wrapper on a session
\* without ANOVA, the RuntimeError that comes before it) and leaves the stored
\* alpha and confidence_intervals unchanged; an alpha strictly between 0 and 1
\* is not refused for its value, and the Design stores it.
C15_AlphaOutsideUnitIntervalRefused ==
    [][call'.op = "calculate_confidence_intervals" =>
           /\ ~ValidAlpha(call'.alpha) =>
                  /\ call'.err \in {AlphaError, AnovaRuntimeError}
                  /\ call'.err = AnovaRuntimeError => anova_table = <<>>
                  /\ alpha' = alpha
                  /\ confidence_intervals' = confidence_intervals
           /\ ValidAlpha(call'.alpha) =>
                  /\ call'.err # AlphaError
                  /\ call'.err # AnovaRuntimeError => alpha' = call'.alpha]_vars

\* C15: alpha = 1 was refused by the Design on a session that holds the
\* intervals of an earlier call at 0.01.
C15_RefusedWithIntervalsKept ==
    /\ call.op = "calculate_confidence_intervals"
    /\ call.alpha = ROne /\ call.err = AlphaError
    /\ alpha = <<1, 100>>
    /\ confidence_intervals # <<>>

\* The bounds of an entry are mean - interval and mean + interval with
\* interval = z * sqrt(sigma_squared): they bracket the mean when the interval
\* is a number that is not negative.
BracketsMean(entry) ==
    /\ RLeq(RZero, entry.z)
    /\ RLeq(RZero, entry.sigma_squared)

\* The interval of the first entry is at most that of the second: by z when
\* the two have one sigma_squared, by sigma_squared when they have one z,
\* else by the squares z^2 * sigma_squared.
WidthLeq(first, second) ==
    IF first.sigma_squared = second.sigma_squared
    THEN first.sigma_squared = RZero \/ RLeq(first.z, second.z)
    ELSE IF first.z = second.z
    THEN first.z = RZero \/ RLeq(first.sigma_squared, second.sigma_squared)
    ELSE RLeq(RMul(RMul(first.z, first.z), first.sigma_squared),
              RMul(RMul(second.z, second.z), second.sigma_squared))

\* The intervals the session would compute next at significance level b.
IntervalsAt(b) == confidence_intervals_of(Self, b)

RECURSIVE Pow2(_)
Pow2(k) == IF k = 0 THEN 1 ELSE 2 * Pow2(k - 1)

\* The facets a crossed design string names, in its order.
NamedFacets(design_str) == SplitOn(design_str, " x ", "")

\* The constructor was called with a crossed design string of distinct
\* facets, two at least.
CrossedDesignGiven ==
    /\ call.op = "__init__"
    /\ CountOf(call.design_str, ":") = 0
    /\ LET facets == NamedFacets(call.design_str)
       IN  Len(facets) >= 2 /\ Cardinality(Range(facets)) = Len(facets)

\* The facet algebra has one component for each non-empty subset of the
\* facets of the design string, 2^k - 1 of them, and 'mean' with the empty
\* tuple.
FullyCrossedAlgebra ==
    LET facets == NamedFacets(call.design_str)
        vtd == variance_tuple_dictionary
    IN  /\ call.err = NoError
        /\ Len(vtd) = Pow2(Len(facets))
        /\ Cardinality(Keys(vtd)) = Len(vtd)
        /\ {Range(vtd[k].tup) : k \in 1..Len(vtd)} = SUBSET Range(facets)
        /\ \A k \in 1..Len(vtd) :
               /\ Cardinality(Range(vtd[k].tup)) = Len(vtd[k].tup)
               /\ (vtd[k].name = "mean") = (vtd[k].tup = <<>>)

\* C17: for a fully crossed design string naming k >= 2 distinct facets, for
\* any k, match_research_design followed by parse_facets yields a facet
\* algebra with exactly 2^k - 1 non-mean components, one for each non-empty
\* subset of the facets, plus 'mean' mapped to the empty tuple.
C17_CrossedAlgebraForAnyCount ==
    CrossedDesignGiven => FullyCrossedAlgebra

\* C17, for two and three facets only: the algebra is the fully crossed one.
C17_CrossedAlgebraUpToThree ==
    (CrossedDesignGiven /\ Len(NamedFacets(call.design_str)) <= 3) =>
        FullyCrossedAlgebra

\* C17: a session was built from a design string of three facets, one of
\* them named x.
C17_ThreeFacetsWithX ==
    /\ CrossedDesignGiven /\ FullyCrossedAlgebra
    /\ Len(NamedFacets(call.design_str)) = 3
    /\ "x" \in Range(NamedFacets(call.design_str))

\* The session has the nested design i:p.
NestedDesign == Keys(PopMean(variance_tuple_dictionary)) = {"p", "i:p"}

\* The G-coefficient tables the session holds.
AllGTables ==
    {g_coeffs_table} \cup {d_study_dict[label] : label \in DOMAIN d_study_dict}

\* C18: for the nested design item:person with all facets random, the delta
\* facets and the Delta facets of 'person' are the same set, {item:person},
\* so rho^2(person) equals phi^2(person) for any variances and level counts.
C18_NestedRhoEqualsPhi ==
    NestedDesign =>
        LET vtd == PopMean(variance_tuple_dictionary)
            tau_facets == get_tau_facets("p", <<"p">>, vtd)
        IN  /\ get_little_delta_facets(tau_facets, "p", <<"p">>, vtd) = {"i:p"}
            /\ get_big_delta_facets(tau_facets, vtd) = {"i:p"}
            /\ \A table \in AllGTables :
                   \A facet \in DOMAIN table :
                       table[facet].rho2 = table[facet].phi2

\* C18: a nested session holds G coefficients of 'person' strictly between 0
\* and 1, and a D-study table with another value for them.
C18_NestedCoefficientsDiffer ==
    /\ NestedDesign
    /\ "p" \in DOMAIN g_coeffs_table
    /\ RLess(RZero, g_coeffs_table["p"].rho2)
    /\ RLess(g_coeffs_table["p"].rho2, ROne)
    /\ \E label \in DOMAIN d_study_dict :
           /\ "p" \in DOMAIN d_study_dict[label]
           /\ d_study_dict[label]["p"] # g_coeffs_table["p"]

\* The session as construction left it: the facet algebra with its 'mean'
\* component, and nothing calculated.
FreshSession ==
    [Self EXCEPT !.variance_tuple_dictionary =
                     Append(PopMean(variance_tuple_dictionary), MeanComponent),
                 !.T = <<>>, !.variance_coeffs_table = <<>>,
                 !.anova_table = <<>>, !.levels_coeffs = <<>>,
                 !.g_coeffs_table = <<>>, !.d_study_dict = <<>>,
                 !.confidence_intervals = <<>>]

\* What calculate_anova leaves on the fresh session.
FreshAnova == design_calculate_anova(FreshSession)

\* calculate_anova was the last call and it succeeded, as it does on the
\* fresh session.
AnovaJustCalculated ==
    /\ call.op = "calculate_anova" /\ call.err = NoError
    /\ FreshAnova.err = NoError

\* C19: calculate_anova, after any sequence of other calls, leaves the
\* variance table it leaves on a fresh session: the same rows, the 'mean' row
\* among them, and the same variance values.
C19_AnovaAsOnFreshSession ==
    AnovaJustCalculated => anova_table = FreshAnova.anova_table

\* C19: as long as the session's facet algebra still has its 'mean' component,
\* calculate_anova leaves the table of a fresh session.
C19_AnovaAsFreshWhileMeanKept ==
    (AnovaJustCalculated /\ "mean" \in Keys(variance_tuple_dictionary)) =>
        anova_table = FreshAnova.anova_table

\* C19: the rows calculate_anova leaves carry the variance values of a fresh
\* session's rows.
C19_RowsLeftAsOnFreshSession ==
    AnovaJustCalculated =>
        \A key \in DOMAIN anova_table :
            /\ key \in DOMAIN FreshAnova.anova_table
            /\ anova_table[key].Variance = FreshAnova.anova_table[key].Variance

\* C19: calculate_anova succeeded again after confidence intervals were
\* calculated, the 'mean' component still in the facet algebra.
C19_AnovaAfterIntervals ==
    /\ AnovaJustCalculated
    /\ "mean" \in Keys(variance_tuple_dictionary)
    /\ confidence_intervals # <<>>

\* The session had g_coeffs never been called: the facet algebra still has
\* its 'mean' component and no levels coefficients are held.
WithoutGCoeffs ==
    [Self EXCEPT !.variance_tuple_dictionary =
                     Append(PopMean(variance_tuple_dictionary), MeanComponent),
                 !.levels_coeffs = <<>>, !.g_coeffs_table = <<>>]

\* The step is calculate_d_study(None, pseudo_counts_dfs=[...]) with the
\* default variances, after a successful calculate_anova.
PseudoCountsDStudyWithDefaults ==
    /\ anova_table # <<>>
    /\ call'.op = "calculate_d_study"
    /\ call'.pseudo_counts_dfs.given
    /\ ~call'.d_study_design.given
    /\ ~call'.variance_dictionary.given

\* C20: after a successful calculate_anova, a pseudo-count D-study with the
\* default variances and facet algebra succeeds exactly when it succeeds on
\* the session where g_coeffs was not called before.
C20_DStudyOutcomeWhateverCameBefore ==
    [][PseudoCountsDStudyWithDefaults =>
          ((call'.err = NoError) <=>
           (design_calculate_d_study(WithoutGCoeffs, NoKwarg,
                                     call'.pseudo_counts_dfs,
                                     NoKwarg).err = NoError))]_vars

\* C20: while the facet algebra still has its 'mean' component, the
\* pseudo-count D-study with defaults is refused for its keys.
C20_RefusedWhileMeanKept ==
    [][(PseudoCountsDStudyWithDefaults
        /\ "mean" \in Keys(variance_tuple_dictionary)) =>
          call'.err = KeysMismatchError]_vars

\* C20: a pseudo-count D-study with defaults succeeded, 'mean' having been
\* popped from the facet algebra by an earlier call.
C20_AcceptedAfterGCoeffs ==
    /\ call.op = "calculate_d_study" /\ call.err = NoError
    /\ call.pseudo_counts_dfs.given /\ ~call.variance_dictionary.given
    /\ "mean" \notin Keys(variance_tuple_dictionary)

\* The components whose facets are some, not all and not none, of the facets
\* of tup.
StrictlyInside(tup, vtd) ==
    {c.name : c \in
        {c \in Range(vtd) :
            /\ Range(c.tup) # {}
            /\ Range(c.tup) \subseteq Range(tup)
            /\ Range(c.tup) # Range(tup)}}

\* C21: for every facet of differentiation F, _get_tau_facets gives F and
\* exactly the components whose facet set is a non-empty strict subset of
\* F's, and tau is the sum of the variances of those components.
C21_TauFacetsAreTheStrictSubsets ==
    \A F \in Range(PopMean(variance_tuple_dictionary)) :
        LET tau_facets == get_tau_facets(F.name, F.tup, variance_tuple_dictionary)
            specified == {F.name} \cup StrictlyInside(F.tup, variance_tuple_dictionary)
        IN  /\ tau_facets = specified
            /\ (anova_table # <<>> /\ specified \subseteq DOMAIN anova_table) =>
                   calculate_tau(VarianceColumn(anova_table), tau_facets)
                       = RSumF([f \in specified |-> anova_table[f].Variance])

\* C21: a session of three crossed facets holds variances under which tau of the
\* three-way component, summed over all seven components, is not zero while
\* the facet algebra still has its 'mean' component.
C21_TauOfThreeWayComponent ==
    /\ "p x i x o" \in Keys(variance_tuple_dictionary)
    /\ "mean" \in Keys(variance_tuple_dictionary)
    /\ anova_table # <<>>
    /\ Cardinality(get_tau_facets("p x i x o", <<"p", "i", "o">>,
                                  variance_tuple_dictionary)) = 7
    /\ calculate_tau(VarianceColumn(anova_table),
                     get_tau_facets("p x i x o", <<"p", "i", "o">>,
                                    variance_tuple_dictionary)) # RZero

\* The variances g_coeffs takes from anova_table: 'mean' dropped, negative
\* estimates set to zero.
ClippedEstimates ==
    [key \in DOMAIN VarianceColumn(anova_table) |->
        IF RIsNeg(anova_table[key].Variance) THEN RZero
        ELSE anova_table[key].Variance]

\* The session holds variance estimates and levels coefficients for the
\* non-mean components of its facet algebra.
EstimatesAndLevelsHeld ==
    /\ anova_table # <<>> /\ levels_coeffs # <<>>
    /\ DOMAIN ClippedEstimates = Keys(PopMean(variance_tuple_dictionary))
    /\ DOMAIN levels_coeffs = Keys(PopMean(variance_tuple_dictionary))

\* The delta facets of the component F as the specification words them.
SpecifiedLittleDelta(F, vtd) ==
    {c.name : c \in
        {c \in Range(vtd) :
            /\ c.name # "mean" /\ c.name # F.name
            /\ c.name \notin get_tau_facets(F.name, F.tup, vtd)
            /\ Len(c.tup) >= Len(F.tup)
            /\ Range(c.tup) \cap Range(F.tup) # {}}}

\* C22: for every facet of differentiation F, the delta facets are the
\* components that are not 'mean', not F, not tau facets, have at least as
\* many facets as F and share a facet with it; delta is the sum over them of
\* variance x levels coefficient of (F, component).
C22_LittleDeltaAsSpecified ==
    \A F \in Range(PopMean(variance_tuple_dictionary)) :
        LET vtd == variance_tuple_dictionary
            tau_facets == get_tau_facets(F.name, F.tup, vtd)
            delta_facets == get_little_delta_facets(tau_facets, F.name, F.tup, vtd)
        IN  /\ delta_facets = SpecifiedLittleDelta(F, vtd)
            /\ EstimatesAndLevelsHeld =>
                   calculate_little_delta(ClippedEstimates, F.name, delta_facets,
                                          levels_coeffs)
                       = RSumF([f \in SpecifiedLittleDelta(F, vtd) |->
                                   RMul(ClippedEstimates[f],
                                        levels_coeffs[F.name][f])])

\* C22: a session holds, for some facet, a delta facet with a variance above
\* zero and a levels coefficient below one.
C22_WeightedDeltaFacet ==
    /\ EstimatesAndLevelsHeld
    /\ \E F \in Range(PopMean(variance_tuple_dictionary)) :
       \E f \in SpecifiedLittleDelta(F, variance_tuple_dictionary) :
           /\ RLess(RZero, ClippedEstimates[f])
           /\ RLess(levels_coeffs[F.name][f], ROne)

\* C23: for every facet of differentiation F, in the facet algebra g_coeffs
\* works on, the Delta facets are the components outside the tau facets, so
\* the two sets partition the non-mean components; Delta is the sum over the
\* Delta facets of variance x levels coefficient of (F, component).
C23_TauAndBigDeltaPartition ==
    LET vtd == PopMean(variance_tuple_dictionary)
    IN  \A F \in Range(vtd) :
            LET tau_facets == get_tau_facets(F.name, F.tup, vtd)
                Delta_facets == get_big_delta_facets(tau_facets, vtd)
            IN  /\ tau_facets \cup Delta_facets = Keys(vtd)
                /\ tau_facets \cap Delta_facets = {}
                /\ "mean" \notin Delta_facets
                /\ EstimatesAndLevelsHeld =>
                       calculate_big_delta(ClippedEstimates, F.name, Delta_facets,
                                           levels_coeffs)
                           = RSumF([f \in Keys(vtd) \ tau_facets |->
                                       RMul(ClippedEstimates[f],
                                            levels_coeffs[F.name][f])])

\* C23: a session holds estimates under which some facet has a Delta facet
\* that is no delta facet, with a variance above zero.
C23_DeltaFacetBeyondLittleDelta ==
    /\ EstimatesAndLevelsHeld
    /\ LET vtd == PopMean(variance_tuple_dictionary)
       IN  \E F \in Range(vtd) :
               LET tau_facets == get_tau_facets(F.name, F.tup, vtd)
               IN  \E f \in get_big_delta_facets(tau_facets, vtd)
                              \ get_little_delta_facets(tau_facets, F.name, F.tup, vtd) :
                       RLess(RZero, ClippedEstimates[f])

\* The sum, over the groups of df by the facets of tup (one group of all rows
\* for the empty tuple), of (group mean)^2 x (group count), the means taken
\* of the column col.
SumOfSquaredGroupMeans(df, tup, col) ==
    LET cols == Range(tup)
        s(g) == SumTo([k \in 1..Len(df) |->
                          IF SameGroup(df, k, g, cols) THEN df[k][col] ELSE 0],
                      Len(df))
    IN  RSumTo([g \in 1..Len(df) |->
                   IF IsFirst(df, g, cols)
                   THEN Rat(s(g) * s(g), GroupSize(df, g, cols))
                   ELSE RZero],
               Len(df))

\* calculate_anova was the last call, on data that has the response column
\* and a column for every facet of the facet algebra.
TValuesJustCalculated ==
    /\ call.op = "calculate_anova"
    /\ FacetsOf(variance_tuple_dictionary) \cup {response_col} \subseteq Columns(data)

\* Every component of the facet algebra has its T value, computed from the
\* session's response column and rounded to four places.
TValuesAsSpecified ==
    \A c \in Range(variance_tuple_dictionary) :
        /\ c.name \in DOMAIN T
        /\ T[c.name] = Round4(SumOfSquaredGroupMeans(data, c.tup, response_col))

\* C24: after _calculate_T_values every component has T = sum over its groups
\* of mean^2 x count, and 'mean' has (overall mean)^2 x N, computed from the
\* session's response column whatever its name.
C24_TValuesFromResponseColumn == TValuesJustCalculated => TValuesAsSpecified

\* C24: the T values are as specified whenever the response column is named
\* 'Response' or the facet algebra has lost its 'mean' component.
C24_TValuesWhenNamedResponse ==
    (/\ TValuesJustCalculated
     /\ \/ response_col = "Response"
        \/ "mean" \notin Keys(variance_tuple_dictionary)) => TValuesAsSpecified

\* C24: T values were calculated for a response column named 'Response', the
\* one of 'mean' among them and above zero.
C24_MeanTValueHeld ==
    /\ TValuesJustCalculated /\ response_col = "Response"
    /\ "mean" \in DOMAIN T /\ RLess(RZero, T["mean"])

\* The facet tuple of a component of the facet algebra given at construction.
TupleOfComponent(key) ==
    IF key = "mean" THEN <<>> ELSE TupOf(variance_tuple_dictionary, key)

\* The sum, over the groups g of df by the facets of R and the cells c of the
\* grouping by the facets of R and C inside g, of count(c)^2 / count(g).
SumOverCells(df, R, C) ==
    LET joint == Range(R) \cup Range(C)
    IN  RSumTo([k \in 1..Len(df) |->
                   IF IsFirst(df, k, joint)
                   THEN Rat(GroupSize(df, k, joint) * GroupSize(df, k, joint),
                            GroupSize(df, k, Range(R)))
                   ELSE RZero],
               Len(df))

\* C25: every variance coefficient (R, C) is the sum over the groups of R and
\* the cells of the joint grouping of count(c)^2 / count(g); it is the row
\* count N when C is 'mean' and whenever every facet of C is a facet of R.
C25_VarianceCoefficientsAsSpecified ==
    \A R \in DOMAIN variance_coeffs_table :
    \A C \in DOMAIN variance_coeffs_table[R] :
        /\ variance_coeffs_table[R][C]
               = Round4(SumOverCells(data, TupleOfComponent(R), TupleOfComponent(C)))
        /\ (Range(TupleOfComponent(C)) \subseteq Range(TupleOfComponent(R))) =>
               variance_coeffs_table[R][C] = RInt(Len(data))

\* C25: a session of several observations holds a variance coefficient that
\* is not the row count, and one in the column of 'mean'.
C25_CoefficientBelowRowCount ==
    /\ Len(data) > 1
    /\ "mean" \in DOMAIN variance_coeffs_table
    /\ \E R \in DOMAIN variance_coeffs_table :
       \E C \in DOMAIN variance_coeffs_table[R] :
           RLess(variance_coeffs_table[R][C], RInt(Len(data)))

\* A levels coefficients table of the facet algebra vtd: a row and a column
\* per non-mean component, none for 'mean', the row of the largest component
\* all ones, every other cell filled and above zero.
WellFormedLevels(levels, vtd) ==
    /\ DOMAIN levels = Keys(vtd) \ {"mean"}
    /\ \A key \in DOMAIN levels :
           /\ DOMAIN levels[key] = Keys(vtd) \ {"mean"}
           /\ \A grouping_facet \in DOMAIN levels[key] :
                  /\ ~IsNaN(levels[key][grouping_facet])
                  /\ RLess(RZero, levels[key][grouping_facet])
                  /\ key = MaxFacet(vtd) => levels[key][grouping_facet] = ROne

\* C26: the table of _calculate_levels_coeffs, the one the session holds and
\* the one computed from its data with 'mean' still in the facet algebra,
\* has a row and a column per non-mean component, ones in the row of the
\* largest component, and filled, strictly positive cells elsewhere.
C26_LevelsCoefficientsWellFormed ==
    /\ levels_coeffs # <<>> =>
           WellFormedLevels(levels_coeffs, variance_tuple_dictionary)
    /\ ~LevelsCoeffsRaises(data, variance_tuple_dictionary) =>
           WellFormedLevels(
               calculate_levels_coeffs(
                   data, Append(PopMean(variance_tuple_dictionary), MeanComponent)),
               variance_tuple_dictionary)

\* C26: a session of three crossed facets holds levels coefficients, one of
\* them below one for two components that share no facet.
C26_CoefficientOfDisjointComponents ==
    /\ levels_coeffs # <<>>
    /\ {"p", "i", "o"} \subseteq DOMAIN levels_coeffs
    /\ RLess(levels_coeffs["p"]["i"], ROne)

\* calculate_confidence_intervals was the last call and it stored its
\* intervals.
IntervalsJustCalculated ==
    /\ call.op = "calculate_confidence_intervals" /\ call.err = NoError
    /\ EstimatesAndLevelsHeld

\* The Delta g_coeffs computes for the component key from the variances and
\* levels coefficients the session holds.
BigDeltaOf(key) ==
    LET vtd == PopMean(variance_tuple_dictionary)
        tau_facets == get_tau_facets(key, TupOf(vtd, key), vtd)
    IN  calculate_big_delta(ClippedEstimates, key,
                            get_big_delta_facets(tau_facets, vtd), levels_coeffs)

\* C27: for each main-effect component other than the largest, the sigma^2
\* of calculate_confidence_intervals equals the Delta g_coeffs computes for
\* it from the same variances and levels coefficients.
C27_SigmaSquaredIsBigDelta ==
    IntervalsJustCalculated =>
        \A key \in DOMAIN confidence_intervals :
            Len(TupOf(variance_tuple_dictionary, key)) = 1 =>
                confidence_intervals[key].sigma_squared = BigDeltaOf(key)

\* C27: intervals were calculated with a main effect of variance above zero
\* and a main effect of sigma^2 above zero.
C27_MainEffectWithVariance ==
    /\ IntervalsJustCalculated
    /\ \E key \in DOMAIN confidence_intervals :
           /\ Len(TupOf(variance_tuple_dictionary, key)) = 1
           /\ RLess(RZero, ClippedEstimates[key])
    /\ \E key \in DOMAIN confidence_intervals :
           /\ Len(TupOf(variance_tuple_dictionary, key)) = 1
           /\ RLess(RZero, confidence_intervals[key].sigma_squared)

\* The level counts of the G study: each facet of the facet algebra with the
\* number of levels its column has in the data.
OwnLevelCounts ==
    LET facets == FacetSeq(variance_tuple_dictionary)
    IN  [k \in 1..Len(facets) |->
            [facet |-> facets[k], level |-> LevelsOf(data, facets[k])]]

RECURSIVE ProductOfLevels(_)
ProductOfLevels(d_study) ==
    IF d_study = <<>> THEN 1
    ELSE Head(d_study).level * ProductOfLevels(Tail(d_study))

\* The data has a column for every facet and one observation for every
\* combination of their levels.
BalancedData ==
    /\ FacetsOf(variance_tuple_dictionary) \subseteq Columns(data)
    /\ Len(data) = ProductOfLevels(OwnLevelCounts)
    /\ \A j \in 1..Len(data) : \A k \in 1..Len(data) :
           SameGroup(data, j, k, FacetsOf(variance_tuple_dictionary)) => j = k

\* C28: for a balanced design the pseudo-count table create_pseudo_df builds
\* from the G study's own level counts gives, through
\* _calculate_levels_coeffs, the levels coefficients of the real data.
C28_PseudoCountsOfOwnLevels ==
    BalancedData =>
        calculate_levels_coeffs(
            create_pseudo_df(OwnLevelCounts, variance_tuple_dictionary),
            variance_tuple_dictionary)
          = calculate_levels_coeffs(data, variance_tuple_dictionary)

\* C28: a balanced nested session of two persons and two items each, whose
\* pseudo-count table gives the coefficient 1/2 to (p, i:p).
C28_NestedPseudoCounts ==
    /\ BalancedData
    /\ Keys(PopMean(variance_tuple_dictionary)) = {"p", "i:p"}
    /\ Len(data) = 4
    /\ calculate_levels_coeffs(
           create_pseudo_df(OwnLevelCounts, variance_tuple_dictionary),
           variance_tuple_dictionary)["p"]["i:p"] = <<1, 2>>

\* The component key has all the facets of the component variance and,
\* besides them, fixed facets only, at least one.
AlphaPlusFixed(key, variance) ==
    LET tup == Range(TupOf(variance_tuple_dictionary, key))
        facets == Range(TupOf(variance_tuple_dictionary, variance))
    IN  /\ facets \subseteq tup
        /\ tup \ facets # {}
        /\ tup \ facets \subseteq Range(call.fixed_facets.val)

\* C29: adjust_for_fixed_effects, for any list of fixed facets, adds a
\* component to a retained random component alpha only if its facets are all
\* of alpha's plus one or more fixed facets, and it returns.
C29_AbsorbedOnlyAlphaPlusFixed ==
    call.op = "adjust_for_fixed_effects" =>
        /\ call.err = NoError
        /\ \A pair \in call.absorbed : AlphaPlusFixed(pair[1], pair[2])

\* C29: with no more than one fixed facet the call returns and every
\* component added to alpha has alpha's facets and the fixed facet.
C29_OneFixedFacet ==
    (/\ call.op = "adjust_for_fixed_effects"
     /\ call.fixed_facets.given => Len(call.fixed_facets.val) <= 1) =>
        /\ call.err = NoError
        /\ \A pair \in call.absorbed : AlphaPlusFixed(pair[1], pair[2])

\* C29: with the facet o fixed in p x i x o, the component p x o was added to
\* p and the component p x i x o to p x i.
C29_InteractionsAbsorbed ==
    /\ call.op = "adjust_for_fixed_effects"
    /\ call.fixed_facets = Kwarg(<<"o">>)
    /\ {<<"p x o", "p">>, <<"p x i x o", "p x i">>} \subseteq call.absorbed

\* The combinations of the levels 1..n_f of the facets of a dict of level
\* counts.
LevelCombinations(d_study) ==
    {combo \in [{item.facet : item \in Range(d_study)} -> 1..MaxDLevel + 1] :
        \A item \in Range(d_study) : combo[item.facet] <= item.level}

\* C30: create_pseudo_df returns for every dict of level counts and facet
\* algebra, with as many rows as the product of the level counts, each
\* combination of the levels 1..n_f of the given facets in exactly one row.
C30_PseudoTableIsTheFullCrossing ==
    call.op = "create_pseudo_df" =>
        /\ call.returned
        /\ Len(data) = ProductOfLevels(call.d_study)
        /\ \A combo \in LevelCombinations(call.d_study) :
               Cardinality({k \in 1..Len(data) : data[k] = combo}) = 1

\* C30: a table was returned for the chain i:h:p from level counts given for
\* the nested facets i and h alone, two levels each.
C30_ParentAbsentFromDict ==
    /\ call.op = "create_pseudo_df" /\ call.returned
    /\ "i:h:p" \in Keys(variance_tuple_dictionary)
    /\ call.d_study = <<[facet |-> "i", level |-> 2], [facet |-> "h", level |-> 2]>>
    /\ Len(data) = 4

====
